---- MODULE Spec2Model ----
(***************************************************************************)
(* A model of the filter translation and query-assembly core of the       *)
(* winder-app: the filter option cache (filterOptionsService), the        *)
(* reference data resolver (referenceDataService), the filter translator  *)
(* (filterUtils), the wine query assembler (wineQueries) and the          *)
(* unrated-wine selector (userPreferenceService).                         *)
(*                                                                         *)
(* JavaScript strings are sequences of one-character strings, so that     *)
(* trim(), toLowerCase() and split('-') are computed, not assumed.        *)
(* null and undefined are the one-element sequences Null and Undefined,   *)
(* whose element is no character.                                          *)
(***************************************************************************)
EXTENDS Integers, Sequences, FiniteSets, TLC

\* ------------------------------------------------------------------ bounds
\* Option requests (calls of a fetch*Options function) in one behaviour.
MaxReq == 2
\* Calls of referenceDataService.initialize() in one behaviour.
MaxCalls == 2
\* Dimensions of a filter selection that differ from the default filter.
MaxActive == 2
\* The largest `limit` passed to getUnratedWinesWithFilters.
MaxLimit == 2
\* Wine fetches the App starts in one behaviour (the one of its mount included).
MaxFetches == 3
\* Longest language tag handed to the language normalizers.
MaxTagLen == 3
\* Calls of getAllFilterOptions in one behaviour.
MaxFanOuts == 2
\* Clock advances in one behaviour.
MaxTicks == 2
\* Date.now() at the start of a behaviour (milliseconds, positive).
StartTime == 1

\* ----------------------------------------------------------------- strings
Null == <<"<null>">>
Undefined == <<"<undefined>">>

IsNullish(s) == s = Null \/ s = Undefined

UpperLetters ==
    <<"A", "B", "C", "D", "E", "F", "G", "H", "I", "J", "K", "L", "M",
      "N", "O", "P", "Q", "R", "S", "T", "U", "V", "W", "X", "Y", "Z">>

LowerLetters ==
    <<"a", "b", "c", "d", "e", "f", "g", "h", "i", "j", "k", "l", "m",
      "n", "o", "p", "q", "r", "s", "t", "u", "v", "w", "x", "y", "z">>

\* String.prototype.toLowerCase, one character at a time.
LowerChar(c) ==
    IF \E i \in 1..26 : UpperLetters[i] = c
    THEN LowerLetters[CHOOSE i \in 1..26 : UpperLetters[i] = c]
    ELSE c

ToLowerCase(s) == [i \in 1..Len(s) |-> LowerChar(s[i])]

\* The white space String.prototype.trim removes (space and tab here).
IsWhiteSpace(c) == c \in {" ", "\t"}

RECURSIVE TrimStart(_)
TrimStart(s) ==
    IF s # <<>> /\ IsWhiteSpace(Head(s)) THEN TrimStart(Tail(s)) ELSE s

RECURSIVE TrimEnd(_)
TrimEnd(s) ==
    IF s # <<>> /\ IsWhiteSpace(s[Len(s)])
    THEN TrimEnd(SubSeq(s, 1, Len(s) - 1))
    ELSE s

Trim(s) == TrimEnd(TrimStart(s))

\* s.split('-')[0]: the text before the first hyphen.
RECURSIVE BeforeHyphen(_)
BeforeHyphen(s) ==
    IF s = <<>> \/ Head(s) = "-" THEN <<>>
    ELSE <<Head(s)>> \o BeforeHyphen(Tail(s))

\* The values of a list, and [...new Set(list)] (first occurrences, in order).
Range(list) == {list[i] : i \in 1..Len(list)}

RECURSIVE Unique(_)
Unique(list) ==
    IF list = <<>> THEN <<>>
    ELSE LET init == Unique(SubSeq(list, 1, Len(list) - 1))
             last == list[Len(list)]
         IN IF last \in Range(init) THEN init ELSE Append(init, last)

\* Array.prototype.slice(0, n) for n >= 0.
Slice0(list, n) == SubSeq(list, 1, IF n < Len(list) THEN n ELSE Len(list))

\* Boolean(value) of a string or null: the empty string and null are falsy.
Truthy(s) == ~IsNullish(s) /\ s # <<>>

\* ======================================================= filter option cache
VARIABLES
    now,                \* Date.now()
    ticks,              \* clock advances so far
    filterOptionsCache, \* cache key -> stored option list
    cacheTimestamps,    \* cache key -> Date.now() of the store
    req,                \* option request -> its position, key and result
    queries             \* backend table -> queries issued against it

cacheVars == <<now, ticks, filterOptionsCache, cacheTimestamps, req, queries>>

Reqs == 1..MaxReq

CACHE_TTL == 5 * 60 * 1000

MapSet(map, k, v) == [x \in DOMAIN map \cup {k} |-> IF x = k THEN v ELSE map[x]]

EmptyMap == [x \in {} |-> 0]

ShouldUseCacheInclusive(cacheKey) ==
    IF cacheKey \notin DOMAIN cacheTimestamps \/ cacheTimestamps[cacheKey] = 0
    THEN FALSE
    ELSE now - cacheTimestamps[cacheKey] <= CACHE_TTL

\* !timestamp: a key that is not set (undefined) and 0 are falsy.
shouldUseCache(cacheKey) ==
    IF cacheKey \notin DOMAIN cacheTimestamps \/ cacheTimestamps[cacheKey] = 0
    THEN FALSE
    ELSE now - cacheTimestamps[cacheKey] < CACHE_TTL

\* getCacheValue returns the stored value or null; every stored value is an
\* array, which is truthy, so `if (cached) return cached` is taken exactly
\* when `hit` holds.
getCacheValue(cacheKey) ==
    IF shouldUseCache(cacheKey)
    THEN [hit |-> TRUE, value |-> filterOptionsCache[cacheKey]]
    ELSE [hit |-> FALSE, value |-> <<>>]

SupportedLanguages == {<<"d", "e">>, <<"e", "n">>, <<"f", "r">>, <<"i", "t">>}

\* normalizeLanguageCode of the filter options service; `dflt` is the default
\* of the calling function's languageCode parameter.
OptionsNormalizeLanguageCode(languageCode, dflt) ==
    LET given == IF languageCode = Undefined THEN dflt ELSE languageCode
        baseCode == BeforeHyphen(ToLowerCase(given))
    IN IF baseCode \in SupportedLanguages THEN baseCode ELSE <<"d", "e">>

\* The option dimensions, one per fetch*Options function.
OptionDims ==
    {"grape", "country", "region", "wineType", "color", "productionType",
     "sweetness", "alcohol", "unit", "price"}

\* The dimensions whose function reads and writes the cache.
CachedDims == OptionDims \ {"grape"}

LanguageDims == CachedDims \ {"region", "unit"}

KeyPrefix(dim) ==
    CASE dim = "country" -> "countries"
      [] dim = "wineType" -> "wineTypes"
      [] dim = "color" -> "colors"
      [] dim = "productionType" -> "productionTypes"
      [] dim = "sweetness" -> "sweetness"
      [] dim = "alcohol" -> "alcohol"
      [] dim = "price" -> "price"
      [] dim = "region" -> "regions"
      [] dim = "unit" -> "units"
      [] OTHER -> "grapes"

CacheKey(dim, languageCode) ==
    IF dim \in LanguageDims
    THEN <<KeyPrefix(dim), "_">>
         \o OptionsNormalizeLanguageCode(languageCode,
               IF dim = "country" THEN <<"e", "n">> ELSE <<"d", "e">>)
    ELSE <<KeyPrefix(dim)>>

\* The table the first (for most functions, only) query of a fetch reads.
FirstTable(dim) ==
    CASE dim = "grape" -> "grapes"
      [] dim = "country" -> "wines"
      [] dim = "region" -> "regions"
      [] dim = "wineType" -> "wine_types_translations"
      [] dim = "color" -> "wine_colors_translations"
      [] dim = "productionType" -> "vinification_methods_translations"
      [] dim = "sweetness" -> "sweetness_levels_translations"
      [] dim = "alcohol" -> "alcohol_levels_translations"
      [] dim = "unit" -> "units"
      [] OTHER -> "price_ranges_translations"

OptionTables == {FirstTable(d) : d \in OptionDims} \cup {"country_translations"}

\* ------------------------------------------------------- backend responses
optA == <<"a">>
optB == <<"b">>

\* The rows a query can return: one column per row, which may be null or "".
RowPool == {<<>>, <<optA>>, <<optB, optA, optB>>, <<Null, <<>>>>}

\* What `const { data, error } = await supabase.from(...)...` can give.
Responses ==
    {[error |-> TRUE, isNull |-> TRUE, rows |-> <<>>],
     [error |-> FALSE, isNull |-> TRUE, rows |-> <<>>]}
    \cup {[error |-> FALSE, isNull |-> FALSE, rows |-> rows] : rows \in RowPool}

Threw == [ok |-> FALSE, value |-> <<>>]
Returned(value) == [ok |-> TRUE, value |-> value]

\* `${u.volume}L`
VolumeLabel(volume) ==
    (IF volume = Null THEN <<"n", "u", "l", "l">> ELSE volume) \o <<"L">>

\* What a fetch function makes of the response to its (last) query: the value
\* it stores and returns, or the error it throws.
OptionsFrom(dim, resp) ==
    IF resp.error THEN Threw
    ELSE CASE dim = "region" ->
                IF resp.isNull THEN Threw ELSE Returned(resp.rows)
           [] dim = "grape" ->
                IF resp.isNull \/ resp.rows = <<>> THEN Threw
                ELSE Returned(SelectSeq(resp.rows, Truthy))
           [] dim = "country" ->
                IF resp.isNull \/ resp.rows = <<>> THEN Threw
                ELSE Returned(resp.rows)
           [] dim = "unit" ->
                IF resp.isNull \/ resp.rows = <<>> THEN Threw
                ELSE LET labels == [i \in 1..Len(resp.rows) |-> VolumeLabel(resp.rows[i])]
                         uniqueValues == Unique(SelectSeq(labels, Truthy))
                     IN IF uniqueValues = <<>> THEN Threw ELSE Returned(uniqueValues)
           [] OTHER ->
                IF resp.isNull \/ resp.rows = <<>> THEN Threw
                ELSE LET uniqueValues == Unique(SelectSeq(resp.rows, Truthy))
                     IN IF uniqueValues = <<>> THEN Threw ELSE Returned(uniqueValues)

\* fetchCountryOptions, step 1: the distinct country codes of the wines.
CountryCodesFrom(resp) ==
    IF resp.error \/ resp.isNull \/ resp.rows = <<>> THEN Threw
    ELSE LET countryCodes == Unique(SelectSeq(resp.rows, Truthy))
         IN IF countryCodes = <<>> THEN Threw ELSE Returned(countryCodes)

IdleReq == [pc |-> "idle", dim |-> "none", key |-> <<>>, val |-> <<>>]

\* The language tags a caller passes.
LanguageTags == {Undefined, <<"E", "N", "-", "u", "s">>, <<"x", "x">>}

setCacheValue(cacheKey, value) ==
    /\ filterOptionsCache' = MapSet(filterOptionsCache, cacheKey, value)
    /\ cacheTimestamps' = MapSet(cacheTimestamps, cacheKey, now)

\* A call fetch<Dim>Options(languageCode), up to its first await: the cache
\* check and, on a miss, the first query.
Request(r, dim, languageCode) ==
    /\ req[r].pc = "idle"
    /\ \A q \in Reqs : q < r => req[q].pc # "idle" /\ req[q].dim = dim
    /\ LET cacheKey == CacheKey(dim, languageCode)
           cached == getCacheValue(cacheKey)
       IN IF dim \in CachedDims /\ cached.hit
          THEN /\ req' = [req EXCEPT ![r] =
                     [pc |-> "returned", dim |-> dim, key |-> cacheKey,
                      val |-> cached.value]]
               /\ UNCHANGED queries
          ELSE /\ req' = [req EXCEPT ![r] =
                     [pc |-> "q1", dim |-> dim, key |-> cacheKey, val |-> <<>>]]
               /\ queries' = [queries EXCEPT ![FirstTable(dim)] = @ + 1]
    /\ UNCHANGED <<now, ticks, filterOptionsCache, cacheTimestamps>>

FinishCachingFailures(r, resp) ==
    LET out == OptionsFrom(req[r].dim, resp)
    IN /\ req' = [req EXCEPT ![r].pc = IF out.ok THEN "returned" ELSE "threw",
                              ![r].val = out.value]
       /\ setCacheValue(req[r].key, out.value)
       /\ UNCHANGED <<now, ticks, queries>>

\* The rest of a fetch function once its last query has answered.
Finish(r, resp) ==
    LET out == OptionsFrom(req[r].dim, resp)
    IN /\ req' = [req EXCEPT ![r].pc = IF out.ok THEN "returned" ELSE "threw",
                              ![r].val = out.value]
       /\ IF out.ok /\ req[r].dim \in CachedDims
          THEN setCacheValue(req[r].key, out.value)
          ELSE UNCHANGED <<filterOptionsCache, cacheTimestamps>>
       /\ UNCHANGED <<now, ticks, queries>>

\* The first query answers.
Respond(r, resp) ==
    /\ req[r].pc = "q1"
    /\ IF req[r].dim = "country"
       THEN LET codes == CountryCodesFrom(resp)
            IN /\ req' = [req EXCEPT ![r].pc = IF codes.ok THEN "q2" ELSE "threw"]
               /\ queries' = [queries EXCEPT !["country_translations"] =
                                 IF codes.ok THEN @ + 1 ELSE @]
               /\ UNCHANGED <<now, ticks, filterOptionsCache, cacheTimestamps>>
       ELSE Finish(r, resp)

\* The country translations query answers.
RespondTranslations(r, resp) ==
    /\ req[r].pc = "q2"
    /\ Finish(r, resp)

clearFilterOptionsCache ==
    /\ filterOptionsCache' = EmptyMap
    /\ cacheTimestamps' = EmptyMap
    /\ UNCHANGED <<now, ticks, req, queries>>

\* Time passes: a millisecond, just under the TTL, or the TTL.
TickDeltas == {1, CACHE_TTL - 1, CACHE_TTL}

Tick(d) ==
    /\ ticks < MaxTicks
    /\ now' = now + d
    /\ ticks' = ticks + 1
    /\ UNCHANGED <<filterOptionsCache, cacheTimestamps, req, queries>>

\* ------------------------------------------------------ getAllFilterOptions
VARIABLES
    ga  \* the getAllFilterOptions call: its eight promises and its result

gaVars == <<ga>>

\* filterNames: the fetch functions of the Promise.allSettled.
FanDims ==
    {"grape", "wineType", "color", "sweetness", "productionType", "unit",
     "alcohol", "price"}

Pending == [status |-> "pending", value |-> <<>>]
Fulfilled(value) == [status |-> "fulfilled", value |-> value]
Rejected == [status |-> "rejected", value |-> <<>>]

IdleGa ==
    [pc |-> "idle", calls |-> 0, key |-> [dim \in FanDims |-> <<>>],
     settled |-> [dim \in FanDims |-> Pending],
     result |-> [dim \in {} |-> <<>>]]

\* What the queries of the fan-out answer.
FanResponses ==
    {[error |-> TRUE, isNull |-> TRUE, rows |-> <<>>],
     [error |-> FALSE, isNull |-> FALSE, rows |-> <<optB, optA, optB>>]}

FanLanguageTags == {Undefined, <<"D", "E", "-", "c", "h">>}

FanResultAllOrNothing(settled) ==
    [dim \in FanDims |->
        IF \A d \in FanDims : settled[d].status = "fulfilled"
        THEN settled[dim].value ELSE <<>>]

\* filterOptions: the value of a fulfilled promise, [] for a rejected one.
FanResult(settled) ==
    [dim \in FanDims |->
        IF settled[dim].status = "fulfilled" THEN settled[dim].value ELSE <<>>]

\* getAllFilterOptions(languageCode) up to its await: the eight fetch
\* functions are called, each up to its own first await (a cache hit
\* fulfils its promise, a miss sends its query).
getAllFilterOptions(languageCode) ==
    /\ ga.pc \in {"idle", "done"}
    /\ ga.calls < MaxFanOuts
    /\ LET given == IF languageCode = Undefined THEN <<"d", "e">> ELSE languageCode
           key == [dim \in FanDims |-> CacheKey(dim, given)]
           hit == [dim \in FanDims |-> dim \in CachedDims /\ getCacheValue(key[dim]).hit]
       IN /\ ga' = [pc |-> "running", calls |-> ga.calls + 1, key |-> key,
                    settled |-> [dim \in FanDims |->
                                    IF hit[dim]
                                    THEN Fulfilled(getCacheValue(key[dim]).value)
                                    ELSE Pending],
                    result |-> [dim \in {} |-> <<>>]]
          /\ queries' = [t \in OptionTables |->
                            queries[t]
                              + Cardinality({dim \in FanDims :
                                                ~hit[dim] /\ FirstTable(dim) = t})]
    /\ UNCHANGED <<now, ticks, filterOptionsCache, cacheTimestamps, req>>

\* The query of one of the eight fetch functions answers: the function
\* throws, or stores its list (fetchGrapeOptions does not) and returns it.
SettleOption(dim, resp) ==
    /\ ga.pc = "running"
    /\ ga.settled[dim].status = "pending"
    /\ LET out == OptionsFrom(dim, resp)
       IN /\ ga' = [ga EXCEPT !.settled[dim] =
                        IF out.ok THEN Fulfilled(out.value) ELSE Rejected]
          /\ IF out.ok /\ dim \in CachedDims
             THEN setCacheValue(ga.key[dim], out.value)
             ELSE UNCHANGED <<filterOptionsCache, cacheTimestamps>>
    /\ UNCHANGED <<now, ticks, req, queries>>

\* Promise.allSettled has resolved: the record is built and returned.
Collect ==
    /\ ga.pc = "running"
    /\ \A dim \in FanDims : ga.settled[dim].status # "pending"
    /\ ga' = [ga EXCEPT !.pc = "done", !.result = FanResult(ga.settled)]
    /\ UNCHANGED cacheVars

\* ===================================================== reference data resolver
VARIABLES
    initialized,  \* ReferenceDataService.initialized
    cache,        \* ReferenceDataService.cache: wineColors and wineTypes
    call,         \* initialize() call -> its position and that of its two loads
    refQueries    \* reference table -> queries issued against it

refVars == <<initialized, cache, call, refQueries>>

Calls == 1..MaxCalls

RefTables ==
    {"wine_colors", "wine_colors_translations", "wine_types", "wine_types_translations"}

sRed == <<"r", "e", "d">>
sWhite == <<"w", "h", "i", "t", "e">>
sRot == <<"R", "o", "t">>
sRedEn == <<"R", "e", "d">>
sWeiss == <<"W", "e", "i", "s", "s">>
sStill == <<"s", "t", "i", "l", "l", " ", "w", "i", "n", "e">>
sStillwein == <<"S", "t", "i", "l", "l", "w", "e", "i", "n">>

\* The reference tables of the backend.
WineColorsTable == <<[id |-> 1, name |-> sRed], [id |-> 2, name |-> sWhite]>>

WineColorsTranslationsTable ==
    <<[wine_color_id |-> 1, language_code |-> "de", translated_name |-> sRot],
      [wine_color_id |-> 1, language_code |-> "en", translated_name |-> sRedEn],
      [wine_color_id |-> 2, language_code |-> "de", translated_name |-> sWeiss]>>

WineTypesTable == <<[id |-> 1, name |-> sStill]>>

WineTypesTranslationsTable ==
    <<[wine_type_id |-> 1, language_code |-> "de", translated_name |-> sStillwein]>>

\* How a read of a reference table can end: an error, data null, or the rows.
RefOutcomes == {"error", "null", "rows"}

\* `data || []`
RowsOrEmpty(outcome, table) == IF outcome = "rows" THEN table ELSE <<>>

\* The reduce over the matching translations: language_code -> translated_name,
\* a later row of a language replacing an earlier one.
ColorTranslations(translations, id) ==
    LET mine == SelectSeq(translations, LAMBDA t : t.wine_color_id = id)
    IN [l \in {mine[i].language_code : i \in 1..Len(mine)} |->
          LET last == CHOOSE i \in 1..Len(mine) :
                        /\ mine[i].language_code = l
                        /\ \A j \in 1..Len(mine) : mine[j].language_code = l => j <= i
          IN mine[last].translated_name]

TypeTranslations(translations, id) ==
    LET mine == SelectSeq(translations, LAMBDA t : t.wine_type_id = id)
    IN [l \in {mine[i].language_code : i \in 1..Len(mine)} |->
          LET last == CHOOSE i \in 1..Len(mine) :
                        /\ mine[i].language_code = l
                        /\ \A j \in 1..Len(mine) : mine[j].language_code = l => j <= i
          IN mine[last].translated_name]

\* The index loadWineColors stores in cache.wineColors.
BuildWineColors(colors, translations) ==
    [i \in 1..Len(colors) |->
        [name |-> colors[i].name,
         translations |-> ColorTranslations(translations, colors[i].id)]]

\* The index loadWineTypes stores in cache.wineTypes.
BuildWineTypes(types, translations) ==
    [i \in 1..Len(types) |->
        [name |-> types[i].name,
         translations |-> TypeTranslations(translations, types[i].id)]]

IdleCall == [pc |-> "idle", colors |-> "none", types |-> "none", colorRows |-> "null", typeRows |-> "null"]

AlwaysInitialize == FALSE

\* `if (this.initialized) return;`
AlreadyInitialized == initialized

SettledSwallowing(pc, colors, types) ==
    IF pc # "running" THEN pc
    ELSE IF colors \in {"done", "failed"} /\ types \in {"done", "failed"} THEN "resolved"
    ELSE "running"

\* await Promise.all([loadWineColors(), loadWineTypes()]) inside try/catch:
\* the position of initialize() given the positions of its two loads. The
\* first load to fail rejects the call; both done resolves it.
Settled(pc, colors, types) ==
    IF pc # "running" THEN pc
    ELSE IF colors = "failed" \/ types = "failed" THEN "rejected"
    ELSE IF colors = "done" /\ types = "done" THEN "resolved"
    ELSE "running"

\* One step of a load of call c: the call's record after it, and the flag,
\* which initialize() sets when its Promise.all resolves.
AfterLoadStep(c, rec) ==
    LET pc == Settled(call[c].pc, rec.colors, rec.types)
    IN /\ call' = [call EXCEPT ![c] = [rec EXCEPT !.pc = pc]]
       /\ initialized' = (initialized \/ (call[c].pc = "running" /\ pc = "resolved"))

\* initialize(), up to its first await: the guard, and the first read of each load.
initialize(c) ==
    /\ call[c].pc = "idle"
    /\ \A d \in Calls : d < c => call[d].pc # "idle"
    /\ IF AlreadyInitialized
       THEN /\ call' = [call EXCEPT ![c].pc = "resolved"]
            /\ UNCHANGED refQueries
       ELSE /\ call' = [call EXCEPT ![c].pc = "running", ![c].colors = "q1",
                                     ![c].types = "q1"]
            /\ refQueries' = [refQueries EXCEPT !["wine_colors"] = @ + 1,
                                                !["wine_types"] = @ + 1]
    /\ UNCHANGED <<initialized, cache>>

\* loadWineColors: the read of wine_colors answers.
ColorsAnswer(c, outcome) ==
    /\ call[c].colors = "q1"
    /\ IF outcome = "error"
       THEN /\ AfterLoadStep(c, [call[c] EXCEPT !.colors = "failed"])
            /\ UNCHANGED refQueries
       ELSE /\ AfterLoadStep(c, [call[c] EXCEPT !.colors = "q2", !.colorRows = outcome])
            /\ refQueries' = [refQueries EXCEPT !["wine_colors_translations"] = @ + 1]
    /\ UNCHANGED cache

\* loadWineColors: the read of wine_colors_translations answers.
ColorTranslationsAnswer(c, outcome) ==
    /\ call[c].colors = "q2"
    /\ IF outcome = "error"
       THEN /\ AfterLoadStep(c, [call[c] EXCEPT !.colors = "failed"])
            /\ UNCHANGED cache
       ELSE /\ AfterLoadStep(c, [call[c] EXCEPT !.colors = "done"])
            /\ cache' = [cache EXCEPT !.wineColors =
                  BuildWineColors(RowsOrEmpty(call[c].colorRows, WineColorsTable),
                                  RowsOrEmpty(outcome, WineColorsTranslationsTable))]
    /\ UNCHANGED refQueries

\* loadWineTypes: the read of wine_types answers.
TypesAnswer(c, outcome) ==
    /\ call[c].types = "q1"
    /\ IF outcome = "error"
       THEN /\ AfterLoadStep(c, [call[c] EXCEPT !.types = "failed"])
            /\ UNCHANGED refQueries
       ELSE /\ AfterLoadStep(c, [call[c] EXCEPT !.types = "q2", !.typeRows = outcome])
            /\ refQueries' = [refQueries EXCEPT !["wine_types_translations"] = @ + 1]
    /\ UNCHANGED cache

\* loadWineTypes: the read of wine_types_translations answers.
TypeTranslationsAnswer(c, outcome) ==
    /\ call[c].types = "q2"
    /\ IF outcome = "error"
       THEN /\ AfterLoadStep(c, [call[c] EXCEPT !.types = "failed"])
            /\ UNCHANGED cache
       ELSE /\ AfterLoadStep(c, [call[c] EXCEPT !.types = "done"])
            /\ cache' = [cache EXCEPT !.wineTypes =
                  BuildWineTypes(RowsOrEmpty(call[c].typeRows, WineTypesTable),
                                 RowsOrEmpty(outcome, WineTypesTranslationsTable))]
    /\ UNCHANGED refQueries

\* ====================================================== wine query assembler
VARIABLES
    matches,  \* user_wine_matches: the wine_id values stored for the user
    fw,       \* the fetchWines call: position, query, rows and result
    gu        \* the getUnratedWinesWithFilters call: position, limit, result

wineVars == <<matches, fw, gu>>

sCH == <<"C", "H">>
sIT == <<"I", "T">>
sMerlot == <<"M", "e", "r", "l", "o", "t">>
sGamay == <<"G", "a", "m", "a", "y">>
sBlau == <<"B", "l", "a", "u">>
sWallis == <<"W", "a", "l", "l", "i", "s">>
sValais == <<"V", "a", "l", "a", "i", "s">>
sDry == <<"d", "r", "y">>
sVol075 == <<"0", ".", "7", "5">>
sVol15 == <<"1", ".", "5">>
sUnknownRegion ==
    <<"U", "n", "k", "n", "o", "w", "n", " ", "R", "e", "g", "i", "o", "n">>
sUnknownGrape ==
    <<"U", "n", "k", "n", "o", "w", "n", " ", "G", "r", "a", "p", "e">>
sMedium == <<"m", "e", "d", "i", "u", "m">>

NoNames == [l \in {} |-> <<>>]

\* The rows of the wines_with_core_details view (and producer_id, which the
\* producer filter reads). id is the row's UUID, reference_id the external
\* identifier ("" stands for null); year and price_min 0 stand for null.
WinesView ==
    <<[id |-> "u1", reference_id |-> "r1", year |-> 2019, price_min |-> 25,
       wine_color |-> sRed, wine_type |-> sStill, country_code |-> sCH,
       region_name_default |-> sValais,
       region_names_by_language |-> [l \in {<<"d", "e">>} |-> sWallis],
       sweetness_level |-> sDry, alcohol_level |-> sMedium,
       vinification_method |-> Null, price_range |-> sMedium,
       unit_volume |-> sVol075, producer_id |-> "p1"],
      [id |-> "u2", reference_id |-> "", year |-> 0, price_min |-> 0,
       wine_color |-> sWhite, wine_type |-> sStill, country_code |-> sCH,
       region_name_default |-> Null, region_names_by_language |-> NoNames,
       sweetness_level |-> sDry, alcohol_level |-> Null,
       vinification_method |-> Null, price_range |-> Null,
       unit_volume |-> sVol075, producer_id |-> "p1"],
      [id |-> "u3", reference_id |-> "r3", year |-> 2021, price_min |-> 40,
       wine_color |-> sRed, wine_type |-> Null, country_code |-> sIT,
       region_name_default |-> Null, region_names_by_language |-> NoNames,
       sweetness_level |-> Null, alcohol_level |-> sMedium,
       vinification_method |-> Null, price_range |-> sMedium,
       unit_volume |-> sVol15, producer_id |-> "p2"]>>

\* The wine_grapes join table with the name of the joined grape.
WineGrapes ==
    <<[wine_id |-> "u1", name |-> sMerlot],
      [wine_id |-> "u1", name |-> sMerlot],
      [wine_id |-> "u3", name |-> sMerlot],
      [wine_id |-> "u3", name |-> sGamay]>>

GetWineColorNameExactCase(value) ==
    IF ~Truthy(value) THEN Null
    ELSE LET hits == SelectSeq(cache.wineColors, LAMBDA color :
                        \/ color.name = Trim(value)
                        \/ \E l \in DOMAIN color.translations :
                               color.translations[l] = Trim(value))
         IN IF hits = <<>> \/ ~Truthy(hits[1].name) THEN Null ELSE hits[1].name

\* getWineColorName: the canonical name of the first color whose name or one
\* of whose translations is the label, lower-cased and trimmed; else null.
getWineColorName(value) ==
    IF ~Truthy(value) THEN Null
    ELSE LET normalized == Trim(ToLowerCase(value))
             hits == SelectSeq(cache.wineColors, LAMBDA color :
                        \/ ToLowerCase(color.name) = normalized
                        \/ \E l \in DOMAIN color.translations :
                               ToLowerCase(color.translations[l]) = normalized)
         IN IF hits = <<>> \/ ~Truthy(hits[1].name) THEN Null ELSE hits[1].name

GetWineTypeNameByNameOnly(value) ==
    IF ~Truthy(value) THEN Null
    ELSE LET normalized == Trim(ToLowerCase(value))
             hits == SelectSeq(cache.wineTypes, LAMBDA type :
                        ToLowerCase(type.name) = normalized)
         IN IF hits = <<>> \/ ~Truthy(hits[1].name) THEN Null ELSE hits[1].name

\* getWineTypeName, likewise over cache.wineTypes.
getWineTypeName(value) ==
    IF ~Truthy(value) THEN Null
    ELSE LET normalized == Trim(ToLowerCase(value))
             hits == SelectSeq(cache.wineTypes, LAMBDA type :
                        \/ ToLowerCase(type.name) = normalized
                        \/ \E l \in DOMAIN type.translations :
                               ToLowerCase(type.translations[l]) = normalized)
         IN IF hits = <<>> \/ ~Truthy(hits[1].name) THEN Null ELSE hits[1].name

\* ------------------------------------------------- calls of the two lookups
VARIABLES
    rs  \* the latest call of getWineColorName / getWineTypeName and its result

rsVars == <<rs>>

sRotLower == <<"r", "o", "t">>
sRedUpper == <<"R", "E", "D">>
sStillweinUpper == <<"S", "T", "I", "L", "L", "W", "E", "I", "N">>

\* The values callers pass as `value`.
ResolveLabels ==
    {<<>>, Null, sRotLower, sRedUpper, sRed, <<" ", "r", "O", "T", " ">>,
     <<"B", "l", "a", "u">>, sWeiss, sStillweinUpper, sStill}

IdleRs ==
    [pc |-> "idle", dimension |-> "none", label |-> <<>>, index |-> <<>>,
     started |-> FALSE, result |-> Null]

\* A call of getWineColorName (dimension "color") or getWineTypeName
\* ("wineType"). index is the list it searched, and started tells whether
\* initialize() had been called by then.
resolve(dimension, label) ==
    /\ rs' = [pc |-> "done", dimension |-> dimension, label |-> label,
              index |-> IF dimension = "color" THEN cache.wineColors
                        ELSE cache.wineTypes,
              started |-> \E c \in Calls : call[c].pc # "idle",
              result |-> IF dimension = "color" THEN getWineColorName(label)
                         ELSE getWineTypeName(label)]
    /\ UNCHANGED refVars

NotNull(s) == s # Null

ColorNamesKeepingUnresolved(labels) ==
    [i \in 1..Len(labels) |->
        IF getWineColorName(labels[i]) = Null THEN labels[i]
        ELSE getWineColorName(labels[i])]

\* filters.color.map(getWineColorName).filter(n => n !== null)
ColorNames(labels) ==
    SelectSeq([i \in 1..Len(labels) |-> getWineColorName(labels[i])], NotNull)

\* filters.wineType.map(getWineTypeName).filter(n => n !== null)
WineTypeNames(labels) ==
    SelectSeq([i \in 1..Len(labels) |-> getWineTypeName(labels[i])], NotNull)

IsDigit(c) == c \in {"0", "1", "2", "3", "4", "5", "6", "7", "8", "9"}

RECURSIVE LeadingDigits(_)
LeadingDigits(s) ==
    IF s # <<>> /\ IsDigit(Head(s)) THEN <<Head(s)>> \o LeadingDigits(Tail(s)) ELSE <<>>

RECURSIVE StripTrailingZeros(_)
StripTrailingZeros(s) ==
    IF s # <<>> /\ s[Len(s)] = "0" THEN StripTrailingZeros(SubSeq(s, 1, Len(s) - 1)) ELSE s

RECURSIVE StripLeadingZeros(_)
StripLeadingZeros(s) ==
    IF Len(s) > 1 /\ Head(s) = "0" THEN StripLeadingZeros(Tail(s)) ELSE s

\* /^(\d+\.?\d*)/.exec(u) and parseFloat of the match: the number as its
\* shortest decimal text ("0.750L" -> 0.75, "1.L" -> 1), or null on no match.
UnitVolume(u) ==
    LET whole == LeadingDigits(u)
        rest == SubSeq(u, Len(whole) + 1, Len(u))
        fraction == IF rest # <<>> /\ Head(rest) = "."
                    THEN StripTrailingZeros(LeadingDigits(Tail(rest)))
                    ELSE <<>>
    IN IF whole = <<>> THEN Null
       ELSE StripLeadingZeros(whole)
            \o (IF fraction = <<>> THEN <<>> ELSE <<".">> \o fraction)

UnitVolumes(labels) ==
    SelectSeq([i \in 1..Len(labels) |-> UnitVolume(labels[i])], NotNull)

\* `filters.x && filters.x.length > 0`
PresentIgnoringLength(filters, key) == key \in DOMAIN filters

Present(filters, key) == key \in DOMAIN filters /\ filters[key] # <<>>

ColumnOf(key) ==
    CASE key = "countries" -> "country_code"
      [] key = "regions" -> "region_name_default"
      [] key = "sweetness" -> "sweetness_level"
      [] key = "alcohol" -> "alcohol_level"
      [] key = "productionType" -> "vinification_method"
      [] key = "price" -> "price_range"
      [] key = "wineType" -> "wine_type"
      [] key = "color" -> "wine_color"
      [] key = "unit" -> "unit_volume"
      [] OTHER -> "producer_id"

DirectKeys == {"countries", "regions", "sweetness", "alcohol", "productionType", "price", "producer"}

\* The values the `.in(column, values)` predicate of a filter key carries.
InValues(filters, key) ==
    CASE key = "wineType" -> WineTypeNames(filters[key])
      [] key = "color" -> ColorNames(filters[key])
      [] key = "unit" -> UnitVolumes(filters[key])
      [] OTHER -> filters[key]

\* The keys whose predicate is appended to winesQuery before the grape filter:
\* the key is present and, for wineType, color and unit, something is left of
\* its list after the conversion.
AppliedKeys(given, filters) ==
    IF ~given THEN {}
    ELSE {key \in DirectKeys \cup {"wineType", "color", "unit"} :
            Present(filters, key) /\ InValues(filters, key) # <<>>}

\* winesQuery as a map from column to the values it admits.
BuildQuery(given, filters) ==
    LET keys == AppliedKeys(given, filters)
    IN [col \in {ColumnOf(key) : key \in keys} |->
          InValues(filters, CHOOSE key \in keys : ColumnOf(key) = col)]

\* The rows `await winesQuery` returns, in the order of the view.
RunQuery(query) ==
    SelectSeq(WinesView, LAMBDA row :
        \A col \in DOMAIN query : row[col] \in Range(query[col]))

GrapeLookupUnfiltered(grapes) == WineGrapes

\* The wine_grapes rows of the grape filter's lookup.
GrapeLookup(grapes) == SelectSeq(WineGrapes, LAMBDA wg : wg.name \in Range(grapes))

WineNormalizeKeepingCase(languageCode) ==
    IF IsNullish(languageCode) \/ languageCode = <<>> THEN <<"e", "n">>
    ELSE LET baseCode == BeforeHyphen(languageCode)
         IN IF baseCode \in SupportedLanguages THEN baseCode ELSE <<"e", "n">>

\* normalizeLanguageCode of wineQueries.
WineNormalizeLanguageCode(languageCode) ==
    IF IsNullish(languageCode) \/ languageCode = <<>> THEN <<"e", "n">>
    ELSE LET baseCode == BeforeHyphen(ToLowerCase(languageCode))
         IN IF baseCode \in SupportedLanguages THEN baseCode ELSE <<"e", "n">>

\* loadGrapesForWines on success: the distinct grape names of a wine.
GrapesOf(wineId, wineIds) ==
    LET rows == SelectSeq(WineGrapes, LAMBDA wg :
                    wg.wine_id = wineId /\ wg.wine_id \in wineIds /\ Truthy(wg.name))
    IN Unique([i \in 1..Len(rows) |-> rows[i].name])

RECURSIVE JoinComma(_)
JoinComma(names) ==
    IF names = <<>> THEN <<>>
    ELSE IF Len(names) = 1 THEN names[1]
    ELSE names[1] \o <<",", " ">> \o JoinComma(Tail(names))

OrElse(s, dflt) == IF Truthy(s) THEN s ELSE dflt

\* The Wine built from a row (tags, which no property here reads, left out).
\* grapesLoaded is false when loadGrapesForWines returned {}.
ToWine(row, activeLanguage, grapesLoaded, wineIds) ==
    LET names == row.region_names_by_language
        grapes == IF grapesLoaded THEN GrapesOf(row.id, wineIds) ELSE <<>>
    IN [id |-> IF row.reference_id # "" THEN row.reference_id ELSE row.id,
        vintage |-> row.year,
        price |-> row.price_min,
        region |-> IF activeLanguage \in DOMAIN names /\ Truthy(names[activeLanguage])
                   THEN names[activeLanguage]
                   ELSE OrElse(row.region_name_default, sUnknownRegion),
        grape_variety |-> OrElse(JoinComma(grapes), sUnknownGrape),
        wine_type |-> OrElse(row.wine_color, sRed),
        sweetness |-> OrElse(row.sweetness_level, sDry)]

TransformOrFail(rows, activeLanguage, grapesLoaded) ==
    IF grapesLoaded
    THEN [i \in 1..Len(rows) |->
            ToWine(rows[i], activeLanguage, TRUE, {rows[j].id : j \in 1..Len(rows)})]
    ELSE <<>>

\* winesData.map(...): the wines fetchWines returns for its rows.
Transform(rows, activeLanguage, grapesLoaded) ==
    LET wineIds == {rows[i].id : i \in 1..Len(rows)}
    IN [i \in 1..Len(rows) |-> ToWine(rows[i], activeLanguage, grapesLoaded, wineIds)]

\* --------------------------------------------------------------- fetchWines
\* arg is the argument of the call and resolverReady the resolver's flag when
\* the call was made; lookup, listing and enrich are how its three queries
\* ended ("none" for a query not answered).
IdleFw ==
    [pc |-> "idle", caller |-> "none", activeLanguage |-> <<>>, grape |-> <<>>,
     query |-> [col \in {} |-> <<>>], rows |-> <<>>, result |-> <<>>, issued |-> <<>>,
     arg |-> [given |-> FALSE, filters |-> [k \in {} |-> <<>>]],
     resolverReady |-> FALSE,
     lookup |-> "none", listing |-> "none", enrich |-> "none"]

IdleGu ==
    [pc |-> "idle", limit |-> 0, allWines |-> <<>>, rated |-> {}, lookup |-> "none",
     result |-> <<>>, liked |-> {}]

sRotPadded == <<" ", "r", "O", "T", " ">>
sUnit075 == <<"0", ".", "7", "5", "0", "L">>

\* A map with one key.
One(key, values) == [k \in {key} |-> values]

\* The DatabaseWineFilter arguments callers pass; `given` is false for a call
\* without the argument.
FilterArgs ==
    {[given |-> FALSE, filters |-> [k \in {} |-> <<>>]],
     [given |-> TRUE, filters |-> [k \in {} |-> <<>>]],
     [given |-> TRUE, filters |-> [k \in {"color", "grape", "countries"} |-> <<>>]],
     [given |-> TRUE, filters |-> One("color", <<sRot>>)],
     [given |-> TRUE, filters |-> One("color", <<sBlau, sRotPadded>>)],
     [given |-> TRUE, filters |-> One("color", <<sBlau>>)],
     [given |-> TRUE, filters |-> One("grape", <<sMerlot>>)],
     [given |-> TRUE, filters |-> One("grape", <<sBlau>>)],
     [given |-> TRUE, filters |-> [k \in {"wineType", "countries"} |->
                                    IF k = "wineType" THEN <<sStillwein>> ELSE <<sCH>>]],
     [given |-> TRUE, filters |-> [k \in {"wineType", "countries"} |->
                                    IF k = "wineType" THEN <<sBlau>> ELSE <<sIT>>]],
     [given |-> TRUE, filters |-> One("unit", <<sUnit075>>)],
     [given |-> TRUE, filters |-> One("producer", <<"p2">>)]}

WineLanguageTags == {Undefined, <<"d", "e">>}

Limits == 0..MaxLimit

\* Nothing of this core is running and no result waits for its caller: a
\* request may start.
Quiet == fw.pc = "idle" /\ gu.pc = "idle"

\* The caller takes the result of its finished request.
TakeResult ==
    /\ fw.pc = "done"
    /\ gu.pc \in {"idle", "done"}
    /\ fw' = IdleFw
    /\ gu' = IdleGu
    /\ UNCHANGED matches

\* fetchWines up to its first await: the language, the predicates of the
\* listing query, and the first query, which is the grape lookup when a grape
\* filter is present and the listing query otherwise.
FwStart(caller, arg, languageCode) ==
    LET grapeFilter == arg.given /\ Present(arg.filters, "grape")
    IN [pc |-> IF grapeFilter THEN "grapeLookup" ELSE "listing",
        caller |-> caller,
        activeLanguage |-> WineNormalizeLanguageCode(languageCode),
        grape |-> IF grapeFilter THEN arg.filters["grape"] ELSE <<>>,
        query |-> BuildQuery(arg.given, arg.filters),
        rows |-> <<>>,
        result |-> <<>>,
        issued |-> IF grapeFilter THEN <<"wine_grapes">> ELSE <<"wines_with_core_details">>,
        arg |-> arg,
        resolverReady |-> initialized,
        lookup |-> "none", listing |-> "none", enrich |-> "none"]

\* A caller other than getUnratedWinesWithFilters calls fetchWines; the caller
\* keeps the result of its latest request only.
fetchWines(arg, languageCode) ==
    /\ Quiet
    /\ fw' = FwStart("direct", arg, languageCode)
    /\ gu' = IdleGu
    /\ UNCHANGED matches

GrapeLookupAnswerAlwaysListing(outcome) ==
    /\ fw.pc = "grapeLookup"
    /\ fw' = [fw EXCEPT !.pc = "listing", !.lookup = outcome,
                        !.issued = Append(@, "wines_with_core_details")]
    /\ UNCHANGED <<matches, gu>>

\* The grape lookup answers: a thrown error ends in the catch block, a query
\* error is logged and the listing query goes out without a restriction on
\* id, rows restrict it to their wine ids, and no rows return [].
GrapeLookupAnswer(outcome) ==
    /\ fw.pc = "grapeLookup"
    /\ LET wineGrapeData == GrapeLookup(fw.grape)
           wineIdsWithGrapes == Unique([i \in 1..Len(wineGrapeData) |-> wineGrapeData[i].wine_id])
           finished == [fw EXCEPT !.pc = "done", !.result = <<>>, !.lookup = outcome]
           listing == [fw EXCEPT !.pc = "listing", !.lookup = outcome,
                                 !.issued = Append(@, "wines_with_core_details")]
       IN fw' = CASE outcome = "throw" -> finished
                  [] outcome = "error" -> listing
                  [] wineGrapeData # <<>> ->
                       [listing EXCEPT !.query =
                           [col \in DOMAIN fw.query \cup {"id"} |->
                               IF col = "id" THEN wineIdsWithGrapes ELSE fw.query[col]]]
                  [] OTHER -> finished
    /\ UNCHANGED <<matches, gu>>

ListingDataDespiteError(outcome, query) == RunQuery(query)

\* The rows the code goes on with after `await winesQuery`: none when the
\* query threw or returned an error, which is thrown into the catch block.
ListingData(outcome, query) == IF outcome = "ok" THEN RunQuery(query) ELSE <<>>

\* The listing query answers: an error (thrown or returned) ends in the catch
\* block, no rows return [], rows start the load of their grapes.
ListingAnswer(outcome) ==
    /\ fw.pc = "listing"
    /\ LET winesData == ListingData(outcome, fw.query)
       IN fw' = IF winesData = <<>>
                THEN [fw EXCEPT !.pc = "done", !.result = <<>>, !.listing = outcome]
                ELSE [fw EXCEPT !.pc = "grapes", !.rows = winesData, !.listing = outcome,
                                !.issued = Append(@, "wine_grapes")]
    /\ UNCHANGED <<matches, gu>>

\* loadGrapesForWines answers (an error or a throw gives {}), and the rows
\* are transformed and returned.
GrapesAnswer(outcome) ==
    /\ fw.pc = "grapes"
    /\ fw' = [fw EXCEPT !.pc = "done", !.enrich = outcome,
                         !.result = Transform(fw.rows, fw.activeLanguage, outcome = "ok")]
    /\ UNCHANGED <<matches, gu>>

QueryOutcomes == {"ok", "error", "throw"}

\* ----------------------------------------------------------------- likeWine
\* likeWine(userId, wineId) when both of its queries succeed: the row of
\* wines whose reference_id is wineId, and its id stored as wine_id. (When a
\* query fails, or no row has that reference_id, it throws and stores nothing.)
likeWine(wineId) ==
    /\ wineId # ""
    /\ \E i \in 1..Len(WinesView) :
          /\ WinesView[i].reference_id = wineId
          /\ matches' = matches \cup {WinesView[i].id}
    /\ UNCHANGED <<fw, gu>>

\* The identifiers the client holds: Wine.id of the wines of the view.
ClientIds ==
    {IF WinesView[i].reference_id # "" THEN WinesView[i].reference_id
     ELSE WinesView[i].id : i \in 1..Len(WinesView)}

\* ----------------------------------------------- getUnratedWinesWithFilters
\* The call, up to the first await of the fetchWines(filters) it makes; liked
\* records the wines whose likeWine had succeeded when the call was made.
getUnratedWinesWithFilters(arg, limit) ==
    /\ Quiet
    /\ gu' = [IdleGu EXCEPT !.pc = "fetching", !.limit = limit, !.liked = matches]
    /\ fw' = FwStart("getUnrated", arg, Undefined)
    /\ UNCHANGED matches

\* fetchWines has returned allWines: the rated-wines lookup goes out.
RatedLookup ==
    /\ gu.pc = "fetching"
    /\ fw.pc = "done"
    /\ gu' = [gu EXCEPT !.pc = "rated", !.allWines = fw.result]
    /\ UNCHANGED <<matches, fw>>

\* allWines.filter(wine => !ratedWineIds.has(wine.id))
Unrated(allWines, ratedWineIds) ==
    SelectSeq(allWines, LAMBDA wine : wine.id \notin ratedWineIds)

\* The rated-wines lookup answers: on a query error all wines are returned,
\* cut to limit; a thrown error ends in the catch block, which returns [].
RatedAnswer(outcome) ==
    /\ gu.pc = "rated"
    /\ gu' = CASE outcome = "error" ->
                   [gu EXCEPT !.pc = "done", !.lookup = outcome,
                              !.result = Slice0(gu.allWines, gu.limit)]
              [] outcome = "throw" ->
                   [gu EXCEPT !.pc = "done", !.lookup = outcome, !.result = <<>>]
              [] OTHER ->
                   [gu EXCEPT !.pc = "done", !.lookup = outcome, !.rated = matches,
                              !.result = Slice0(Unrated(gu.allWines, matches), gu.limit)]
    /\ UNCHANGED <<matches, fw>>

\* ========================================================== filter translator
VARIABLES
    tr  \* the convertToDBFilter call: its argument and the filter it returned

trVars == <<tr>>

\* The string-list fields of a WineFilter that convertToDBFilter reads.
FilterDims ==
    {"grape", "country", "region", "wineType", "color", "sweetness",
     "productionType", "unit", "alcohol", "price"}

\* The key of DatabaseWineFilter a field is copied to.
DbKey(dim) ==
    CASE dim = "country" -> "countries"
      [] dim = "region" -> "regions"
      [] OTHER -> dim

SanitizeWithoutTrim(list) ==
    SelectSeq(list, LAMBDA item : ~IsNullish(item) /\ Trim(item) # <<>>)

\* list.filter(item => item?.trim()).map(item => item.trim())
sanitizeStringList(list) ==
    LET kept == SelectSeq(list, LAMBDA item : ~IsNullish(item) /\ Trim(item) # <<>>)
    IN [i \in 1..Len(kept) |-> Trim(kept[i])]

\* `frontendFilter.x || []`
FieldOrEmpty(frontendFilter, dim) ==
    IF dim \in DOMAIN frontendFilter THEN frontendFilter[dim] ELSE <<>>

ConvertedFilterResolving(frontendFilter) ==
    LET Values(dim) ==
            CASE dim = "color" ->
                   ColorNames(sanitizeStringList(FieldOrEmpty(frontendFilter, dim)))
              [] dim = "wineType" ->
                   WineTypeNames(sanitizeStringList(FieldOrEmpty(frontendFilter, dim)))
              [] OTHER -> sanitizeStringList(FieldOrEmpty(frontendFilter, dim))
        kept == {dim \in FilterDims : Values(dim) # <<>>}
    IN [key \in {DbKey(dim) : dim \in kept} |->
          Values(CHOOSE dim \in kept : DbKey(dim) = key)]

\* convertToDBFilter: every field sanitized, and copied when something is left.
ConvertedFilter(frontendFilter) ==
    LET kept == {dim \in FilterDims :
                    sanitizeStringList(FieldOrEmpty(frontendFilter, dim)) # <<>>}
    IN [key \in {DbKey(dim) : dim \in kept} |->
          sanitizeStringList(FieldOrEmpty(frontendFilter,
              CHOOSE dim \in kept : DbKey(dim) = key))]

\* createDefaultFilter: every string-list field empty.
DefaultFilter == [dim \in FilterDims |-> <<>>]

sPaddedA == <<" ", "a", " ">>

\* What the user interface can leave in a field instead of the default [].
FieldChoices ==
    {[present |-> FALSE, list |-> <<>>],
     [present |-> TRUE, list |-> <<<<>>, sPaddedA, Null, optB>>],
     [present |-> TRUE, list |-> <<<<" ">>, <<"\t", " ">>>>],
     [present |-> TRUE, list |-> <<sRot>>],
     [present |-> TRUE, list |-> <<sBlau, sRotPadded>>],
     [present |-> TRUE, list |-> <<sBlau>>],
     [present |-> TRUE, list |-> <<sStillwein>>]}

\* The default filter with the fields of `dims` replaced (or removed).
Override(dims, choice) ==
    [dim \in {d \in FilterDims : d \notin dims \/ choice[d].present} |->
        IF dim \in dims THEN choice[dim].list ELSE <<>>]

Selections ==
    UNION {{Override(dims, choice) : choice \in [dims -> FieldChoices]} :
             dims \in {d \in SUBSET FilterDims : Cardinality(d) <= MaxActive}}

IdleTr == [pc |-> "idle", frontendFilter |-> DefaultFilter,
           dbFilter |-> [k \in {} |-> <<>>], resolverReady |-> FALSE]

\* A call of convertToDBFilter (it awaits nothing); resolverReady records
\* whether the resolver was initialized when it ran.
convertToDBFilter(frontendFilter) ==
    /\ tr.pc = "idle"
    /\ tr' = [pc |-> "done", frontendFilter |-> frontendFilter,
              dbFilter |-> ConvertedFilter(frontendFilter),
              resolverReady |-> initialized]

\* ================================================== the language normalizers
VARIABLES
    nl  \* the last language tag normalized, with what each normalizer made of it

nlVars == <<nl>>

TagChars == {"d", "D", "e", "E", "n", "-", "x"}

\* The strings of at most MaxTagLen characters.
TagStrings == UNION {[1..n -> TagChars] : n \in 0..MaxTagLen}

\* languageCode?: string | null
NormalizerTags == {Null, Undefined} \cup TagStrings

TypeError == <<"<TypeError>">>

\* normalizeLanguageCode of the filter option service, as its callers see
\* it: `languageCode.toLowerCase()` of null throws.
OptionsLanguageOf(languageCode) ==
    IF languageCode = Null THEN TypeError
    ELSE OptionsNormalizeLanguageCode(languageCode, <<"d", "e">>)

IdleNl == [pc |-> "idle", tag |-> <<>>, wine |-> <<>>, again |-> <<>>, options |-> <<>>]

\* Both normalizers are applied to one tag, the wine-query one a second
\* time to its own result.
normalizeLanguageCode(languageCode) ==
    /\ nl.pc = "idle"
    /\ nl' = [pc |-> "done", tag |-> languageCode,
              wine |-> WineNormalizeLanguageCode(languageCode),
              again |-> WineNormalizeLanguageCode(WineNormalizeLanguageCode(languageCode)),
              options |-> OptionsLanguageOf(languageCode)]

\* ============================================== the App and its swipe container
VARIABLES
    app,     \* the state of App: user, wines, loading, currentFilter, fetches
    sc,      \* the mounted SwipeContainer: its state, and what happened on its deck
    timers   \* the container instances whose 300 ms timer is pending

appVars == <<app, sc, timers>>

\* The legacy fields of createDefaultFilter.
LegacyDefaults ==
    [wineTypes |-> <<>>, regions |-> <<>>, grapeVarieties |-> <<>>,
     minPrice |-> 0, maxPrice |-> 1000, vintageRange |-> <<1900, 2024>>]

\* The legacy fields of a filter the App holds: every filter comes from
\* createDefaultFilter or from FilterMenu, which copies them.
Legacy(filter) == LegacyDefaults

\* getActiveFilterCount
getActiveFilterCount(currentFilter) ==
    LET One01(counted) == IF counted THEN 1 ELSE 0
    IN One01(Len(Legacy(currentFilter).wineTypes) > 0)
         + One01(Len(Legacy(currentFilter).regions) > 0)
         + One01(Len(Legacy(currentFilter).grapeVarieties) > 0)
         + One01(Len(FieldOrEmpty(currentFilter, "grape")) > 0)
         + One01(Len(FieldOrEmpty(currentFilter, "country")) > 0)
         + One01(Len(FieldOrEmpty(currentFilter, "region")) > 0)
         + One01(Len(FieldOrEmpty(currentFilter, "wineType")) > 0)
         + One01(Len(FieldOrEmpty(currentFilter, "color")) > 0)
         + One01(Len(FieldOrEmpty(currentFilter, "productionType")) > 0)
         + One01(Legacy(currentFilter).minPrice > 0 \/ Legacy(currentFilter).maxPrice < 1000)

\* The filters FilterMenu applies: the default, one with a single dimension
\* selected for every dimension, and one with two.
AppFilters ==
    {DefaultFilter}
      \cup {[DefaultFilter EXCEPT ![dim] = <<optA>>] : dim \in FilterDims}
      \cup {[DefaultFilter EXCEPT !["color"] = <<sRot>>, !["sweetness"] = <<optA, optB>>]}

\* Rows the listing can carry besides those of WinesView: a young vintage
\* and a high price.
YoungRow == [WinesView[3] EXCEPT !.id = "u4", !.reference_id = "r4", !.year = 2025]
DearRow == [WinesView[1] EXCEPT !.id = "u5", !.reference_id = "r5", !.price_min = 1200]

\* What a fetch of the App hands to setWines.
FetchedWines ==
    {Transform(rows, <<"e", "n">>, TRUE) :
        rows \in {<<>>, <<WinesView[1], WinesView[2]>>, <<YoungRow, WinesView[1]>>,
                  <<DearRow>>}}

\* filterWines of the swipe container (vintage and price 0 stand for null).
filterWines(wineList, wineFilter) ==
    SelectSeq(wineList, LAMBDA wine :
        /\ ~(Len(Legacy(wineFilter).wineTypes) > 0
               /\ wine.wine_type \notin Range(Legacy(wineFilter).wineTypes))
        /\ ~(wine.price # 0
               /\ (wine.price < Legacy(wineFilter).minPrice
                     \/ wine.price > Legacy(wineFilter).maxPrice))
        /\ ~(Len(Legacy(wineFilter).regions) > 0
               /\ wine.region \notin Range(Legacy(wineFilter).regions))
        /\ ~(wine.vintage # 0
               /\ (wine.vintage < Legacy(wineFilter).vintageRange[1]
                     \/ wine.vintage > Legacy(wineFilter).vintageRange[2])))

\* shuffleWines: every order Math.random can produce.
shuffleWines(wineList) ==
    IF wineList = <<>> THEN {<<>>}
    ELSE {[i \in 1..Len(wineList) |-> wineList[order[i]]] :
             order \in Permutations(1..Len(wineList))}

\* App after its first render and effects: the loading screen is shown and
\* the first fetch is under way.
InitialApp ==
    [user |-> "", wines |-> <<>>, loading |-> TRUE, currentFilter |-> DefaultFilter,
     filterCount |-> 0, inflight |-> 1, fetches |-> 1]

\* No SwipeContainer is mounted. inst numbers the instances; swipes counts
\* the accepted swipes and advances the timer advances on the present deck,
\* rights the accepted right swipes and onMatch the onMatch calls of the
\* instance.
Unmounted ==
    [mounted |-> FALSE, inst |-> 0, currentIndex |-> 0, isAnimating |-> FALSE,
     filteredWines |-> <<>>, swipes |-> 0, advances |-> 0, rights |-> 0, onMatch |-> 0]

\* The loading screen replaces the container.
Unmount == [Unmounted EXCEPT !.inst = sc.inst]

\* The effect on [wines, filter, user?.id] with its deck: of a new instance
\* when none is mounted, and of the mounted instance otherwise.
Reset(deck) ==
    IF sc.mounted
    THEN [sc EXCEPT !.filteredWines = deck, !.currentIndex = 0,
                    !.swipes = 0, !.advances = 0]
    ELSE [Unmounted EXCEPT !.mounted = TRUE, !.inst = sc.inst + 1,
                           !.filteredWines = deck]

\* handleFilterChange(newFilter), called by the FilterMenu of the main
\* screen: the filter is stored, the badge follows, and fetchWinesWithFilters
\* sets loading and starts a fetch.
handleFilterChange(newFilter) ==
    /\ ~app.loading
    /\ app.fetches < MaxFetches
    /\ app' = [app EXCEPT !.currentFilter = newFilter,
                          !.filterCount = getActiveFilterCount(newFilter),
                          !.loading = TRUE,
                          !.inflight = @ + 1, !.fetches = @ + 1]
    /\ sc' = Unmount
    /\ UNCHANGED <<timers, matches>>

\* The user of useSupabaseAuth changes: the effect on [user] starts a fetch,
\* which sets loading.
UserChanges(user) ==
    /\ user # app.user
    /\ app.fetches < MaxFetches
    /\ app' = [app EXCEPT !.user = user, !.loading = TRUE,
                          !.inflight = @ + 1, !.fetches = @ + 1]
    /\ sc' = Unmount
    /\ UNCHANGED <<timers, matches>>

\* A fetch of fetchWinesWithFilters ends: setWines, then setLoading(false)
\* in its finally block. The container is mounted, or, when an earlier
\* fetch has already ended the loading screen, receives new wines; either
\* way its effect filters and shuffles them and sets the index to 0.
FetchReturns(wines, deck) ==
    /\ app.inflight > 0
    /\ deck \in shuffleWines(filterWines(wines, app.currentFilter))
    /\ app' = [app EXCEPT !.wines = wines, !.loading = FALSE, !.inflight = @ - 1]
    /\ sc' = Reset(deck)
    /\ UNCHANGED <<timers, matches>>

\* handleSwipe(direction) on the card shown: ignored while animating;
\* otherwise a right swipe calls onMatch (handleMatch, which for a logged-in
\* user calls likeWine, here `saved` when it succeeds), and the timer starts.
handleSwipe(direction, saved) ==
    /\ sc.mounted
    /\ sc.currentIndex < Len(sc.filteredWines)
    /\ ~sc.isAnimating
    /\ LET currentWine == sc.filteredWines[sc.currentIndex + 1]
           right == direction = "right"
       IN /\ sc' = [sc EXCEPT !.isAnimating = TRUE,
                              !.swipes = @ + 1,
                              !.rights = IF right THEN @ + 1 ELSE @,
                              !.onMatch = IF right THEN @ + 1 ELSE @]
          /\ matches' =
                IF right /\ app.user # "" /\ currentWine.id # "" /\ saved
                THEN matches \cup {WinesView[i].id : i \in
                        {j \in 1..Len(WinesView) : WinesView[j].reference_id = currentWine.id}}
                ELSE matches
    /\ timers' = timers \cup {sc.inst}
    /\ UNCHANGED app

\* The timer of instance inst fires: setCurrentIndex(prev => prev + 1) and
\* setIsAnimating(false), which do nothing on an unmounted instance.
TimerFires(inst) ==
    /\ inst \in timers
    /\ timers' = timers \ {inst}
    /\ sc' = IF sc.mounted /\ sc.inst = inst
             THEN [sc EXCEPT !.currentIndex = @ + 1, !.isAnimating = FALSE,
                             !.advances = @ + 1]
             ELSE sc
    /\ UNCHANGED <<app, matches>>

\* ============================================================ specifications
vars == <<cacheVars, refVars, wineVars, trVars, rsVars, gaVars, nlVars, appVars>>

\* The state after the modules are loaded: an empty option cache, a resolver
\* that is not initialized, and no call made yet.
Init ==
    /\ now = StartTime
    /\ ticks = 0
    /\ filterOptionsCache = EmptyMap
    /\ cacheTimestamps = EmptyMap
    /\ req = [r \in Reqs |-> IdleReq]
    /\ queries = [t \in OptionTables |-> 0]
    /\ initialized = FALSE
    /\ cache = [wineColors |-> <<>>, wineTypes |-> <<>>]
    /\ call = [c \in Calls |-> IdleCall]
    /\ refQueries = [t \in RefTables |-> 0]
    /\ matches = {}
    /\ fw = IdleFw
    /\ gu = IdleGu
    /\ tr = IdleTr
    /\ rs = IdleRs
    /\ ga = IdleGa
    /\ nl = IdleNl
    /\ app = InitialApp
    /\ sc = Unmounted
    /\ timers = {}

\* The filter option cache and its callers.
NextCache ==
    \/ \E r \in Reqs, dim \in OptionDims, tag \in LanguageTags :
          Request(r, dim, tag) /\ UNCHANGED <<refVars, wineVars, trVars, rsVars, gaVars, nlVars, appVars>>
    \/ \E r \in Reqs, resp \in Responses : Respond(r, resp) /\ UNCHANGED <<refVars, wineVars, trVars, rsVars, gaVars, nlVars, appVars>>
    \/ \E r \in Reqs, resp \in Responses :
          RespondTranslations(r, resp) /\ UNCHANGED <<refVars, wineVars, trVars, rsVars, gaVars, nlVars, appVars>>
    \/ clearFilterOptionsCache /\ UNCHANGED <<refVars, wineVars, trVars, rsVars, gaVars, nlVars, appVars>>
    \/ \E d \in TickDeltas : Tick(d) /\ UNCHANGED <<refVars, wineVars, trVars, rsVars, gaVars, nlVars, appVars>>

SpecCache == Init /\ [][NextCache]_vars

\* getAllFilterOptions, called again after it returned.
NextFanOut ==
    \/ \E tag \in FanLanguageTags :
          getAllFilterOptions(tag) /\ UNCHANGED <<refVars, wineVars, trVars, rsVars, nlVars, appVars>>
    \/ \E dim \in FanDims, resp \in FanResponses :
          SettleOption(dim, resp) /\ UNCHANGED <<refVars, wineVars, trVars, rsVars, nlVars, appVars>>
    \/ Collect /\ UNCHANGED <<refVars, wineVars, trVars, rsVars, nlVars, appVars>>

SpecFanOut == Init /\ [][NextFanOut]_vars

\* The language normalizers, applied to a tag.
NextNormalize ==
    \E languageCode \in (IF nl.pc = "idle" THEN NormalizerTags ELSE {}) :
        normalizeLanguageCode(languageCode)
          /\ UNCHANGED <<cacheVars, refVars, wineVars, trVars, rsVars, gaVars, appVars>>

SpecNormalize == Init /\ [][NextNormalize]_vars

\* The App with its swipe container: filter changes, user changes, fetches
\* that return, swipes and timers.
NextApp ==
    \/ \E newFilter \in (IF app.loading THEN {} ELSE AppFilters) :
          handleFilterChange(newFilter)
            /\ UNCHANGED <<cacheVars, refVars, fw, gu, trVars, rsVars, gaVars, nlVars>>
    \/ \E user \in {"", "user1"} :
          UserChanges(user)
            /\ UNCHANGED <<cacheVars, refVars, fw, gu, trVars, rsVars, gaVars, nlVars>>
    \/ \E wines \in (IF app.inflight > 0 THEN FetchedWines ELSE {}) :
          \E deck \in shuffleWines(filterWines(wines, app.currentFilter)) :
             FetchReturns(wines, deck)
               /\ UNCHANGED <<cacheVars, refVars, fw, gu, trVars, rsVars, gaVars, nlVars>>
    \/ \E direction \in {"left", "right"}, saved \in BOOLEAN :
          handleSwipe(direction, saved)
            /\ UNCHANGED <<cacheVars, refVars, fw, gu, trVars, rsVars, gaVars, nlVars>>
    \/ \E inst \in timers :
          TimerFires(inst)
            /\ UNCHANGED <<cacheVars, refVars, fw, gu, trVars, rsVars, gaVars, nlVars>>

SpecApp == Init /\ [][NextApp]_vars

\* The reference data resolver and the callers of initialize().
NextRef ==
    \/ \E c \in Calls : initialize(c) /\ UNCHANGED <<cacheVars, wineVars, trVars, rsVars, gaVars, nlVars, appVars>>
    \/ \E c \in Calls, outcome \in RefOutcomes :
          ColorsAnswer(c, outcome) /\ UNCHANGED <<cacheVars, wineVars, trVars, rsVars, gaVars, nlVars, appVars>>
    \/ \E c \in Calls, outcome \in RefOutcomes :
          ColorTranslationsAnswer(c, outcome) /\ UNCHANGED <<cacheVars, wineVars, trVars, rsVars, gaVars, nlVars, appVars>>
    \/ \E c \in Calls, outcome \in RefOutcomes :
          TypesAnswer(c, outcome) /\ UNCHANGED <<cacheVars, wineVars, trVars, rsVars, gaVars, nlVars, appVars>>
    \/ \E c \in Calls, outcome \in RefOutcomes :
          TypeTranslationsAnswer(c, outcome) /\ UNCHANGED <<cacheVars, wineVars, trVars, rsVars, gaVars, nlVars, appVars>>

SpecRef == Init /\ [][NextRef]_vars

\* The two lookups, called at any moment beside the application's one
\* initialize().
NextResolve ==
    \/ initialize(1) /\ UNCHANGED <<cacheVars, wineVars, trVars, rsVars, gaVars, nlVars, appVars>>
    \/ \E outcome \in RefOutcomes :
          ColorsAnswer(1, outcome) /\ UNCHANGED <<cacheVars, wineVars, trVars, rsVars, gaVars, nlVars, appVars>>
    \/ \E outcome \in RefOutcomes :
          ColorTranslationsAnswer(1, outcome) /\ UNCHANGED <<cacheVars, wineVars, trVars, rsVars, gaVars, nlVars, appVars>>
    \/ \E outcome \in RefOutcomes :
          TypesAnswer(1, outcome) /\ UNCHANGED <<cacheVars, wineVars, trVars, rsVars, gaVars, nlVars, appVars>>
    \/ \E outcome \in RefOutcomes :
          TypeTranslationsAnswer(1, outcome) /\ UNCHANGED <<cacheVars, wineVars, trVars, rsVars, gaVars, nlVars, appVars>>
    \/ \E dimension \in {"color", "wineType"}, label \in ResolveLabels :
          resolve(dimension, label) /\ UNCHANGED <<cacheVars, wineVars, trVars, gaVars, nlVars, appVars>>

SpecResolve == Init /\ [][NextResolve]_vars

\* The wine query assembler and the unrated-wine selector, one request at a
\* time, beside the application's one initialize() at start-up.
NextWines ==
    \/ initialize(1) /\ UNCHANGED <<cacheVars, wineVars, trVars, rsVars, gaVars, nlVars, appVars>>
    \/ \E outcome \in {"error", "rows"} :
          ColorsAnswer(1, outcome) /\ UNCHANGED <<cacheVars, wineVars, trVars, rsVars, gaVars, nlVars, appVars>>
    \/ \E outcome \in {"error", "rows"} :
          ColorTranslationsAnswer(1, outcome) /\ UNCHANGED <<cacheVars, wineVars, trVars, rsVars, gaVars, nlVars, appVars>>
    \/ \E outcome \in {"error", "rows"} :
          TypesAnswer(1, outcome) /\ UNCHANGED <<cacheVars, wineVars, trVars, rsVars, gaVars, nlVars, appVars>>
    \/ \E outcome \in {"error", "rows"} :
          TypeTranslationsAnswer(1, outcome) /\ UNCHANGED <<cacheVars, wineVars, trVars, rsVars, gaVars, nlVars, appVars>>
    \/ \E arg \in FilterArgs, tag \in WineLanguageTags :
          fetchWines(arg, tag) /\ UNCHANGED <<cacheVars, refVars, trVars, rsVars, gaVars, nlVars, appVars>>
    \/ \E outcome \in QueryOutcomes :
          GrapeLookupAnswer(outcome) /\ UNCHANGED <<cacheVars, refVars, trVars, rsVars, gaVars, nlVars, appVars>>
    \/ \E outcome \in QueryOutcomes :
          ListingAnswer(outcome) /\ UNCHANGED <<cacheVars, refVars, trVars, rsVars, gaVars, nlVars, appVars>>
    \/ \E outcome \in QueryOutcomes :
          GrapesAnswer(outcome) /\ UNCHANGED <<cacheVars, refVars, trVars, rsVars, gaVars, nlVars, appVars>>
    \/ TakeResult /\ UNCHANGED <<cacheVars, refVars, trVars, rsVars, gaVars, nlVars, appVars>>
    \/ \E wineId \in ClientIds : likeWine(wineId) /\ UNCHANGED <<cacheVars, refVars, trVars, rsVars, gaVars, nlVars, appVars>>
    \/ \E arg \in FilterArgs, limit \in Limits :
          getUnratedWinesWithFilters(arg, limit) /\ UNCHANGED <<cacheVars, refVars, trVars, rsVars, gaVars, nlVars, appVars>>
    \/ RatedLookup /\ UNCHANGED <<cacheVars, refVars, trVars, rsVars, gaVars, nlVars, appVars>>
    \/ \E outcome \in QueryOutcomes :
          RatedAnswer(outcome) /\ UNCHANGED <<cacheVars, refVars, trVars, rsVars, gaVars, nlVars, appVars>>

SpecWines == Init /\ [][NextWines]_vars

\* The start of App: the effect that calls initialize() runs first and is
\* not awaited; the fetches of fetchWinesWithFilters follow in any interleaving
\* with the answers to initialize's reads.
NextStartup ==
    \/ initialize(1) /\ UNCHANGED <<cacheVars, wineVars, trVars, rsVars, gaVars, nlVars, appVars>>
    \/ \E outcome \in {"error", "rows"} :
          ColorsAnswer(1, outcome) /\ UNCHANGED <<cacheVars, wineVars, trVars, rsVars, gaVars, nlVars, appVars>>
    \/ \E outcome \in {"error", "rows"} :
          ColorTranslationsAnswer(1, outcome) /\ UNCHANGED <<cacheVars, wineVars, trVars, rsVars, gaVars, nlVars, appVars>>
    \/ \E outcome \in {"error", "rows"} :
          TypesAnswer(1, outcome) /\ UNCHANGED <<cacheVars, wineVars, trVars, rsVars, gaVars, nlVars, appVars>>
    \/ \E outcome \in {"error", "rows"} :
          TypeTranslationsAnswer(1, outcome) /\ UNCHANGED <<cacheVars, wineVars, trVars, rsVars, gaVars, nlVars, appVars>>
    \/ \E arg \in FilterArgs, tag \in WineLanguageTags :
          call[1].pc # "idle" /\ fetchWines(arg, tag) /\ UNCHANGED <<cacheVars, refVars, trVars, rsVars, gaVars, nlVars, appVars>>
    \/ \E outcome \in QueryOutcomes :
          GrapeLookupAnswer(outcome) /\ UNCHANGED <<cacheVars, refVars, trVars, rsVars, gaVars, nlVars, appVars>>
    \/ \E outcome \in QueryOutcomes :
          ListingAnswer(outcome) /\ UNCHANGED <<cacheVars, refVars, trVars, rsVars, gaVars, nlVars, appVars>>
    \/ \E outcome \in QueryOutcomes :
          GrapesAnswer(outcome) /\ UNCHANGED <<cacheVars, refVars, trVars, rsVars, gaVars, nlVars, appVars>>
    \/ TakeResult /\ UNCHANGED <<cacheVars, refVars, trVars, rsVars, gaVars, nlVars, appVars>>

SpecStartup == Init /\ [][NextStartup]_vars

\* The filter translator, beside the application's one initialize(), whose
\* reads succeed here.
NextTranslate ==
    \/ initialize(1) /\ UNCHANGED <<cacheVars, wineVars, trVars, rsVars, gaVars, nlVars, appVars>>
    \/ \E outcome \in {"rows"} :
          ColorsAnswer(1, outcome) /\ UNCHANGED <<cacheVars, wineVars, trVars, rsVars, gaVars, nlVars, appVars>>
    \/ \E outcome \in {"rows"} :
          ColorTranslationsAnswer(1, outcome) /\ UNCHANGED <<cacheVars, wineVars, trVars, rsVars, gaVars, nlVars, appVars>>
    \/ \E outcome \in {"rows"} :
          TypesAnswer(1, outcome) /\ UNCHANGED <<cacheVars, wineVars, trVars, rsVars, gaVars, nlVars, appVars>>
    \/ \E outcome \in {"rows"} :
          TypeTranslationsAnswer(1, outcome) /\ UNCHANGED <<cacheVars, wineVars, trVars, rsVars, gaVars, nlVars, appVars>>
    \/ \E frontendFilter \in (IF tr.pc = "idle" THEN Selections ELSE {}) :
          convertToDBFilter(frontendFilter) /\ UNCHANGED <<cacheVars, refVars, wineVars, rsVars, gaVars, nlVars, appVars>>

SpecTranslate == Init /\ [][NextTranslate]_vars

\* ==================================================================== claims

\* C1: for a cached option key, a request made while the stored timestamp is
\* less than 5 minutes old issues no backend query and returns the stored
\* value; a request made with no stored timestamp, or 5 minutes or more after
\* it, issues a backend query, and a fetch that succeeds replaces the stored
\* value by the fetched one and the timestamp by the current time.
C1_CacheLaw ==
    [][\A r \in Reqs :
        /\ (req[r].pc = "idle" /\ req'[r].pc # "idle" /\ req'[r].dim \in CachedDims) =>
             LET k == req'[r].key
                 t == FirstTable(req'[r].dim)
             IN IF k \in DOMAIN cacheTimestamps /\ now - cacheTimestamps[k] < 300000
                THEN /\ req'[r].pc = "returned"
                     /\ req'[r].val = filterOptionsCache[k]
                     /\ queries' = queries
                ELSE /\ req'[r].pc = "q1"
                     /\ queries' = [queries EXCEPT ![t] = @ + 1]
        /\ (req[r].pc \in {"q1", "q2"} /\ req'[r].pc = "returned"
              /\ req[r].dim \in CachedDims) =>
             /\ req[r].key \in DOMAIN filterOptionsCache'
             /\ filterOptionsCache'[req[r].key] = req'[r].val
             /\ cacheTimestamps'[req[r].key] = now
      ]_vars

\* A second request for a key was served from the cache one millisecond
\* before the entry expired: one query in total.
C1_Witness ==
    \E r1, r2 \in Reqs :
        /\ r1 < r2
        /\ req[r1].pc = "returned" /\ req[r2].pc = "returned"
        /\ req[r1].dim \in CachedDims
        /\ req[r1].key = req[r2].key
        /\ queries[FirstTable(req[r1].dim)] = 1
        /\ req[r1].key \in DOMAIN cacheTimestamps
        /\ req[r1].key \in DOMAIN filterOptionsCache
        /\ now - cacheTimestamps[req[r1].key] = CACHE_TTL - 1
        /\ req[r2].val = filterOptionsCache[req[r1].key]

\* C2: two overlapping requests for the same cache key converge on a single
\* backend fetch: never are two fetches for one key in flight.
C2_SingleFetchPerKey ==
    \A r1, r2 \in Reqs :
        (/\ r1 # r2
         /\ req[r1].dim \in CachedDims
         /\ req[r1].key = req[r2].key
         /\ req[r1].pc \in {"q1", "q2"})
        => req[r2].pc \notin {"q1", "q2"}

\* C3: a second initialize() made while a first one is in flight issues no
\* read of its own: no reference table is being read by two calls at once.
C3_SingleFlight ==
    \A c1, c2 \in Calls :
        /\ (c1 # c2 /\ call[c1].colors \in {"q1", "q2"}) => call[c2].colors \notin {"q1", "q2"}
        /\ (c1 # c2 /\ call[c1].types \in {"q1", "q2"}) => call[c2].types \notin {"q1", "q2"}

\* C4: once an initialize() has failed and the flag is false, the resolver
\* holds no partial state: both indexes are empty.
C4_NoPartialState ==
    (~initialized /\ \E c \in Calls : call[c].pc = "rejected")
    => (cache.wineColors = <<>> /\ cache.wineTypes = <<>>)

\* C5: a read of a reference table that returns an error rejects the
\* initialize() that awaits it and leaves the flag as it was (false, unless
\* another call succeeded); an initialize() called while the flag is false
\* reads wine_colors and wine_types again; and the flag becomes true only in
\* the step in which a call has both of its loads done.
C5_FailLoudAndRetry ==
    [][\A c \in Calls :
        /\ (call[c].pc = "running"
              /\ (call'[c].colors = "failed" \/ call'[c].types = "failed"))
            => (call'[c].pc = "rejected" /\ initialized' = initialized)
        /\ (call[c].pc = "idle" /\ call'[c].pc # "idle" /\ ~initialized)
            => /\ call'[c].pc = "running"
               /\ refQueries'["wine_colors"] = refQueries["wine_colors"] + 1
               /\ refQueries'["wine_types"] = refQueries["wine_types"] + 1
        /\ (call[c].pc = "rejected") => call'[c].pc = "rejected"
        /\ (~initialized /\ initialized')
            => \E d \in Calls : /\ call[d].pc = "running"
                                /\ call'[d].pc = "resolved"
                                /\ call'[d].colors = "done"
                                /\ call'[d].types = "done"
      ]_vars

\* A first initialize() was rejected with the flag left false, both of its
\* loads are over, and a later call has read the tables again and succeeded.
C5_Witness ==
    /\ call[1].pc = "rejected"
    /\ call[1].types = "failed"
    /\ call[1].colors = "done"
    /\ call[2].pc = "resolved"
    /\ call[2].colors = "done" /\ call[2].types = "done"
    /\ initialized
    /\ refQueries["wine_types"] = 2
    /\ refQueries["wine_types_translations"] = 1

\* C6: an initialize() called when the flag is set returns at once: it issues
\* no read and leaves both indexes unchanged.
C6_Idempotent ==
    [][\A c \in Calls :
        (call[c].pc = "idle" /\ call'[c].pc # "idle" /\ initialized)
        => /\ call'[c].pc = "resolved"
           /\ call'[c].colors = "none" /\ call'[c].types = "none"
           /\ refQueries' = refQueries
           /\ cache' = cache
           /\ initialized'
      ]_vars

\* A second initialize() made after the first succeeded: it resolved without
\* a load, and every reference table was read once.
C6_Witness ==
    /\ call[1].pc = "resolved" /\ call[1].colors = "done" /\ call[1].types = "done"
    /\ call[2].pc = "resolved" /\ call[2].colors = "none" /\ call[2].types = "none"
    /\ \A t \in RefTables : refQueries[t] = 1
    /\ cache.wineColors # <<>> /\ cache.wineTypes # <<>>

\* C7: once getUnratedWinesWithFilters has returned after a successful rated
\* lookup, its result is the first `limit` wines of the listing that the user
\* has not rated, in listing order: no returned wine is in the rated set, and
\* the result is as long as min(limit, number of unrated wines in the listing).
C7_UnratedOnly ==
    (gu.pc = "done" /\ gu.lookup = "ok") =>
        LET IsRated(wine) ==
                \E i \in 1..Len(WinesView) :
                    /\ WinesView[i].id \in gu.rated
                    /\ wine.id = IF WinesView[i].reference_id # ""
                                 THEN WinesView[i].reference_id
                                 ELSE WinesView[i].id
            unrated == SelectSeq(gu.allWines, LAMBDA wine : ~IsRated(wine))
            n == IF Len(unrated) < gu.limit THEN Len(unrated) ELSE gu.limit
        IN /\ Len(gu.result) = n
           /\ \A k \in 1..Len(gu.result) :
                  gu.result[k] = unrated[k] /\ ~IsRated(gu.result[k])

\* C8: when the rated lookup fails, by an error result or by throwing,
\* getUnratedWinesWithFilters returns the first `limit` wines of the listing
\* unfiltered, and not an empty list.
C8_RatedFailureKeepsListing ==
    (gu.pc = "done" /\ gu.lookup \in {"error", "throw"}) =>
        /\ gu.result = Slice0(gu.allWines, gu.limit)
        /\ (gu.allWines # <<>> /\ gu.limit > 0 => gu.result # <<>>)

C10_KeyIffNonBlank ==
    tr.pc = "done" =>
        LET NonBlank(item) ==
                item # Null /\ \E i \in 1..Len(item) : ~IsWhiteSpace(item[i])
            Span(item) ==
                LET solid == {i \in 1..Len(item) : ~IsWhiteSpace(item[i])}
                    lo == CHOOSE i \in solid : \A j \in solid : i <= j
                    hi == CHOOSE i \in solid : \A j \in solid : j <= i
                IN SubSeq(item, lo, hi)
            KeyOf(dim) == IF dim = "country" THEN "countries"
                          ELSE IF dim = "region" THEN "regions" ELSE dim
        IN /\ DOMAIN tr.dbFilter \subseteq {KeyOf(dim) : dim \in FilterDims}
           /\ \A dim \in FilterDims :
                LET list == IF dim \in DOMAIN tr.frontendFilter
                            THEN tr.frontendFilter[dim] ELSE <<>>
                    at == {i \in 1..Len(list) : NonBlank(list[i])}
                    Nth(k) == CHOOSE i \in at :
                                  Cardinality({j \in at : j <= i}) = k
                IN /\ (KeyOf(dim) \in DOMAIN tr.dbFilter) <=> (at # {})
                   /\ KeyOf(dim) \in DOMAIN tr.dbFilter =>
                         /\ Len(tr.dbFilter[KeyOf(dim)]) = Cardinality(at)
                         /\ \A k \in 1..Cardinality(at) :
                                tr.dbFilter[KeyOf(dim)][k] = Span(list[Nth(k)])

\* convertToDBFilter ran on a selection whose country list is
\* ["", " a ", null, "b"] and whose region list holds blanks only: countries
\* is ["a", "b"] and there is no regions key.
C10_Witness ==
    /\ tr.pc = "done"
    /\ FieldOrEmpty(tr.frontendFilter, "country") = <<<<>>, sPaddedA, Null, optB>>
    /\ FieldOrEmpty(tr.frontendFilter, "region") = <<<<" ">>, <<"\t", " ">>>>
    /\ tr.dbFilter = One("countries", <<optA, optB>>)

\* C11: a fetchWines call whose grape lookup ended in a query error returns
\* an empty list.
C11_GrapeErrorEmpty ==
    (fw.pc = "done" /\ fw.lookup = "error") => fw.result = <<>>

\* C12: after a successful grape lookup, if no wine_grapes row carries one of
\* the requested grape names the call has returned [] without a listing
\* query; otherwise the listing query is restricted on id to the distinct
\* wine ids of the rows that carry one, each once, and every wine returned
\* comes from a row with one of those ids.
C12_GrapeRestriction ==
    (fw.pc \in {"listing", "grapes", "done"} /\ fw.lookup = "ok") =>
        LET names == {fw.arg.filters["grape"][i] : i \in 1..Len(fw.arg.filters["grape"])}
            ids == {WineGrapes[i].wine_id : i \in
                       {j \in 1..Len(WineGrapes) : WineGrapes[j].name \in names}}
        IN IF ids = {}
           THEN /\ fw.pc = "done"
                /\ fw.result = <<>>
                /\ fw.issued = <<"wine_grapes">>
           ELSE /\ "id" \in DOMAIN fw.query
                /\ {fw.query["id"][i] : i \in 1..Len(fw.query["id"])} = ids
                /\ Len(fw.query["id"]) = Cardinality(ids)
                /\ fw.issued[2] = "wines_with_core_details"
                /\ \A k \in 1..Len(fw.result) :
                      \E i \in 1..Len(WinesView) :
                          /\ WinesView[i].id \in ids
                          /\ fw.result[k].id = IF WinesView[i].reference_id # ""
                                                THEN WinesView[i].reference_id
                                                ELSE WinesView[i].id

\* fetchWines({grape: ["Merlot"]}) with every query answered: wine_grapes
\* has three Merlot rows of two wines, the listing was restricted to the two
\* and both are returned.
C12_Witness ==
    /\ fw.pc = "done"
    /\ fw.arg = [given |-> TRUE, filters |-> One("grape", <<sMerlot>>)]
    /\ fw.lookup = "ok" /\ fw.listing = "ok"
    /\ fw.query = One("id", <<"u1", "u3">>)
    /\ Len(fw.result) = 2
    /\ fw.result[1].id = "r1" /\ fw.result[2].id = "r3"

\* C13 (as stated): a fetchWines call whose color or wineType list holds only
\* labels that match no name and no translation of the reference table, and
\* whose listing query succeeded, does not return the listing of the same
\* call without the color / wineType constraint.
C13_UnresolvedNotEverything ==
    LET filters == fw.arg.filters
        NoColor(label) ==
            \A j \in 1..Len(WineColorsTable) :
                /\ ToLowerCase(WineColorsTable[j].name) # ToLowerCase(Trim(label))
                /\ \A t \in 1..Len(WineColorsTranslationsTable) :
                      ToLowerCase(WineColorsTranslationsTable[t].translated_name)
                          # ToLowerCase(Trim(label))
        NoType(label) ==
            \A j \in 1..Len(WineTypesTable) :
                /\ ToLowerCase(WineTypesTable[j].name) # ToLowerCase(Trim(label))
                /\ \A t \in 1..Len(WineTypesTranslationsTable) :
                      ToLowerCase(WineTypesTranslationsTable[t].translated_name)
                          # ToLowerCase(Trim(label))
        unresolved ==
            {dim \in {"color", "wineType"} \cap DOMAIN filters :
                /\ filters[dim] # <<>>
                /\ \A i \in 1..Len(filters[dim]) :
                      IF dim = "color" THEN NoColor(filters[dim][i])
                      ELSE NoType(filters[dim][i])}
        rest == [k \in DOMAIN filters \ unresolved |-> filters[k]]
        unconstrained == RunQuery(BuildQuery(TRUE, rest))
    IN (/\ fw.pc = "done" /\ fw.arg.given /\ unresolved # {}
        /\ fw.lookup = "none" /\ fw.listing = "ok") =>
           [k \in 1..Len(fw.result) |-> fw.result[k].id]
             # [k \in 1..Len(unconstrained) |->
                   IF unconstrained[k].reference_id # ""
                   THEN unconstrained[k].reference_id ELSE unconstrained[k].id]

\* C13 (amended): such labels are ignored. The call ends without an error of
\* its own, its listing query carries no predicate on the column of a
\* dimension whose labels all fail to resolve and is the query of the same
\* filter without those dimensions, and when the listing query succeeds the
\* wines returned are those of that query, in order: the listing of the call
\* without the color / wineType constraint.
C13_UnresolvedIgnored ==
    LET filters == fw.arg.filters
        NoColor(label) ==
            \A j \in 1..Len(WineColorsTable) :
                /\ ToLowerCase(WineColorsTable[j].name) # ToLowerCase(Trim(label))
                /\ \A t \in 1..Len(WineColorsTranslationsTable) :
                      ToLowerCase(WineColorsTranslationsTable[t].translated_name)
                          # ToLowerCase(Trim(label))
        NoType(label) ==
            \A j \in 1..Len(WineTypesTable) :
                /\ ToLowerCase(WineTypesTable[j].name) # ToLowerCase(Trim(label))
                /\ \A t \in 1..Len(WineTypesTranslationsTable) :
                      ToLowerCase(WineTypesTranslationsTable[t].translated_name)
                          # ToLowerCase(Trim(label))
        unresolved ==
            {dim \in {"color", "wineType"} \cap DOMAIN filters :
                /\ filters[dim] # <<>>
                /\ \A i \in 1..Len(filters[dim]) :
                      IF dim = "color" THEN NoColor(filters[dim][i])
                      ELSE NoType(filters[dim][i])}
        rest == [k \in DOMAIN filters \ unresolved |-> filters[k]]
        unconstrained == RunQuery(BuildQuery(TRUE, rest))
    IN (/\ fw.pc = "done" /\ fw.arg.given /\ unresolved # {}
        /\ fw.lookup = "none") =>
           /\ fw.listing # "none"
           /\ \A dim \in unresolved : ColumnOf(dim) \notin DOMAIN fw.query
           /\ fw.query = BuildQuery(TRUE, rest)
           /\ fw.listing = "ok" =>
                 [k \in 1..Len(fw.result) |-> fw.result[k].id]
                   = [k \in 1..Len(unconstrained) |->
                         IF unconstrained[k].reference_id # ""
                         THEN unconstrained[k].reference_id ELSE unconstrained[k].id]

\* fetchWines({wineType: ["Blau"], countries: ["IT"]}) has returned with the
\* resolver loaded: the one Italian wine of the view, whatever its wine_type.
C13_Witness ==
    /\ fw.pc = "done"
    /\ fw.arg.given
    /\ DOMAIN fw.arg.filters = {"wineType", "countries"}
    /\ fw.arg.filters["wineType"] = <<sBlau>>
    /\ initialized
    /\ fw.listing = "ok"
    /\ fw.query = One("country_code", <<sIT>>)
    /\ Len(fw.result) = 1
    /\ fw.result[1].id = "r3"

\* C14: a fetchWines call made with the resolver initialized and a color list
\* in which some label matches, without regard to case and surrounding
\* whitespace, a name or a translation of wine_colors: the listing query
\* admits exactly the canonical names of the matching labels, every wine
\* returned comes from a row with one of them as wine_color, and, color being
\* the only filter and the listing query successful, the wines returned are
\* all rows of the view with such a wine_color, so that labels that match
\* nothing change nothing.
C14_ColorFilter ==
    LET filters == fw.arg.filters
        labels == filters["color"]
        NamesOf(label) ==
            {WineColorsTable[j].name : j \in
                {i \in 1..Len(WineColorsTable) :
                    \/ ToLowerCase(WineColorsTable[i].name) = ToLowerCase(Trim(label))
                    \/ \E t \in 1..Len(WineColorsTranslationsTable) :
                          /\ WineColorsTranslationsTable[t].wine_color_id
                                = WineColorsTable[i].id
                          /\ ToLowerCase(WineColorsTranslationsTable[t].translated_name)
                                = ToLowerCase(Trim(label))}}
        RowOf(wine) ==
            CHOOSE i \in 1..Len(WinesView) :
                wine.id = IF WinesView[i].reference_id # ""
                          THEN WinesView[i].reference_id ELSE WinesView[i].id
    IN (/\ fw.pc = "done" /\ fw.resolverReady /\ fw.arg.given
        /\ "color" \in DOMAIN filters) =>
          LET resolved == UNION {NamesOf(labels[i]) : i \in 1..Len(labels)}
              admitted == SelectSeq(WinesView, LAMBDA row : row.wine_color \in resolved)
          IN resolved # {} =>
               /\ "wine_color" \in DOMAIN fw.query
               /\ {fw.query["wine_color"][i] : i \in 1..Len(fw.query["wine_color"])}
                     = resolved
               /\ \A k \in 1..Len(fw.result) :
                     WinesView[RowOf(fw.result[k])].wine_color \in resolved
               /\ (DOMAIN filters = {"color"} /\ fw.listing = "ok") =>
                     /\ Len(fw.result) = Len(admitted)
                     /\ \A k \in 1..Len(admitted) :
                           WinesView[RowOf(fw.result[k])] = admitted[k]

\* fetchWines({color: ["Blau", " rOT "]}) made with the resolver initialized
\* has returned the two red wines of the view and not the white one.
C14_Witness ==
    /\ fw.pc = "done"
    /\ fw.resolverReady
    /\ fw.arg = [given |-> TRUE, filters |-> One("color", <<sBlau, sRotPadded>>)]
    /\ fw.listing = "ok"
    /\ fw.query = One("wine_color", <<sRed>>)
    /\ Len(fw.result) = 2
    /\ fw.result[1].id = "r1" /\ fw.result[2].id = "r3"

C16_EmptyFilterIsNoFilter ==
    LET filters == fw.arg.filters
        empty == \A k \in DOMAIN filters : filters[k] = <<>>
    IN (fw.pc = "done" /\ (~fw.arg.given \/ empty)) =>
          /\ fw.lookup = "none"
          /\ fw.issued[1] = "wines_with_core_details"
          /\ Len(fw.issued) = IF fw.listing = "ok" THEN 2 ELSE 1
          /\ fw.query = [col \in {} |-> <<>>]
          /\ fw.result = IF fw.listing = "ok"
                          THEN Transform(WinesView, fw.activeLanguage, fw.enrich = "ok")
                          ELSE <<>>

\* fetchWines({color: [], grape: [], countries: []}) has returned the three
\* wines of the view after an unrestricted listing query.
C16_Witness ==
    /\ fw.pc = "done"
    /\ fw.arg.given
    /\ DOMAIN fw.arg.filters = {"color", "grape", "countries"}
    /\ fw.listing = "ok"
    /\ fw.issued = <<"wines_with_core_details", "wine_grapes">>
    /\ Len(fw.result) = 3

\* C17: a fetchWines call ends by returning a list. When its listing query
\* returned an error or threw, or its grape lookup threw, the list is empty,
\* and no query is issued after the failed one.
C17_FailSoft ==
    /\ fw.pc \in {"idle", "grapeLookup", "listing", "grapes", "done"}
    /\ (fw.listing \in {"error", "throw"} \/ fw.lookup = "throw") =>
          /\ fw.pc = "done"
          /\ fw.result = <<>>
          /\ fw.rows = <<>>
          /\ fw.enrich = "none"
          /\ fw.issued[Len(fw.issued)] =
                IF fw.lookup = "throw" THEN "wine_grapes" ELSE "wines_with_core_details"

\* fetchWines() without a filter whose listing query returned an error has
\* returned [], the view holding three wines.
C17_Witness ==
    /\ fw.pc = "done"
    /\ ~fw.arg.given
    /\ fw.listing = "error"
    /\ fw.issued = <<"wines_with_core_details">>
    /\ fw.result = <<>>
    /\ Len(WinesView) = 3

\* C18: a fetchWines call whose listing query gave N > 0 rows and whose load
\* of the grape names returned an error or threw returns N wines, the wine
\* of each row in order, each with the placeholder "Unknown Grape" as its
\* grape_variety.
C18_GrapeNamesOptional ==
    (fw.pc = "done" /\ fw.enrich \in {"error", "throw"}) =>
        /\ fw.listing = "ok"
        /\ Len(fw.rows) > 0
        /\ Len(fw.result) = Len(fw.rows)
        /\ \A k \in 1..Len(fw.rows) :
              /\ fw.result[k].id = IF fw.rows[k].reference_id # ""
                                    THEN fw.rows[k].reference_id ELSE fw.rows[k].id
              /\ fw.result[k].grape_variety
                    = <<"U", "n", "k", "n", "o", "w", "n", " ", "G", "r", "a", "p", "e">>

\* fetchWines() without a filter, the load of the grape names having thrown:
\* three wines, the first of which has grapes in wine_grapes.
C18_Witness ==
    /\ fw.pc = "done"
    /\ fw.enrich = "throw"
    /\ Len(fw.result) = 3
    /\ fw.result[1].id = "r1"
    /\ fw.result[1].grape_variety = sUnknownGrape
    /\ \E i \in 1..Len(WineGrapes) : WineGrapes[i].wine_id = "u1"

\* C19: a fetch of a cached option key that ends in an error (an error
\* result, null data, or an empty list reported as an error) throws to its
\* caller and leaves the stored values and the stored timestamps as they
\* were; and a request for a key for which a fetch has failed and none has
\* succeeded issues a backend query.
C19_FailedFetchNotCached ==
    [][\A r \in Reqs :
        /\ (req[r].pc \in {"q1", "q2"} /\ req'[r].pc \notin {"q1", "q2", "returned"}) =>
             /\ req'[r].pc = "threw"
             /\ filterOptionsCache' = filterOptionsCache
             /\ cacheTimestamps' = cacheTimestamps
        /\ (/\ req[r].pc = "idle" /\ req'[r].pc # "idle"
            /\ req'[r].dim \in CachedDims
            /\ \E q \in Reqs : req[q].pc = "threw" /\ req[q].key = req'[r].key
            /\ \A q \in Reqs : req[q].key = req'[r].key => req[q].pc # "returned") =>
             /\ req'[r].key \notin DOMAIN filterOptionsCache
             /\ req'[r].key \notin DOMAIN cacheTimestamps
             /\ req'[r].pc = "q1"
             /\ queries'[FirstTable(req'[r].dim)] = queries[FirstTable(req'[r].dim)] + 1
      ]_vars

\* fetchSweetnessOptions failed, nothing is stored for its key, and a second
\* call for the key has its query out: the table was read twice.
C19_Witness ==
    /\ req[1].pc = "threw"
    /\ req[1].dim = "sweetness"
    /\ req[2].pc = "q1"
    /\ req[2].key = req[1].key
    /\ req[1].key \notin DOMAIN filterOptionsCache
    /\ req[1].key \notin DOMAIN cacheTimestamps
    /\ queries["sweetness_levels_translations"] = 2

\* C20: a request for the grape options made less than 5 minutes after the
\* start, when an earlier request for them has returned, issues no query on
\* the grapes table and returns what the earlier one returned.
C20_GrapeOptionsCached ==
    [][\A r \in Reqs :
        (/\ req[r].pc = "idle" /\ req'[r].pc # "idle"
         /\ req'[r].dim = "grape"
         /\ now - StartTime < 300000
         /\ \E q \in Reqs : req[q].dim = "grape" /\ req[q].pc = "returned") =>
            /\ queries'["grapes"] = queries["grapes"]
            /\ req'[r].pc = "returned"
            /\ \E q \in Reqs : req[q].dim = "grape" /\ req[q].pc = "returned"
                                 /\ req'[r].val = req[q].val
      ]_vars

\* C21: no fetch function returns an empty option list and none stores one:
\* a table that yields no entries makes the function throw.
C21_NoEmptyOptionList ==
    /\ \A r \in Reqs : req[r].pc = "returned" => req[r].val # <<>>
    /\ \A k \in DOMAIN filterOptionsCache : filterOptionsCache[k] # <<>>

C23_WineNormalizer ==
    nl.pc = "done" =>
        /\ nl.wine \in SupportedLanguages
        /\ nl.wine =
              IF nl.tag \in {Null, Undefined, <<>>} THEN <<"e", "n">>
              ELSE IF BeforeHyphen(ToLowerCase(nl.tag)) \in SupportedLanguages
                   THEN BeforeHyphen(ToLowerCase(nl.tag))
                   ELSE <<"e", "n">>
        /\ nl.again = nl.wine

C23_Witness ==
    /\ nl.pc = "done"
    /\ nl.tag = <<"D", "e", "-">>
    /\ nl.wine = <<"d", "e">>
    /\ nl.again = <<"d", "e">>

\* C29: the language normalizer of the wine queries and the one of the
\* filter option service return the same language for every tag.
C29_NormalizersAgree ==
    nl.pc = "done" => nl.wine = nl.options

\* C24: the count App passes to the header badge is the number of filter
\* dimensions of the current selection (grape, country, region, wine type,
\* color, sweetness, production type, unit, alcohol, price) with at least
\* one selected value.
C24_BadgeCountsActive ==
    app.filterCount =
        Cardinality({dim \in FilterDims : Len(app.currentFilter[dim]) > 0})

\* C28: with the default filter every wine handed to the swipe container is
\* in its deck, whatever its vintage and price.
C28_DefaultFilterKeepsAll ==
    (sc.mounted /\ app.currentFilter = DefaultFilter) =>
        Range(app.wines) \subseteq Range(sc.filteredWines)

\* C30: a change of the wines or the filter puts the swipe container at the
\* first card of its deck, where it stays until a swipe on that deck,
\* whatever timer of an earlier deck is pending; every accepted swipe
\* advances the index by one, and onMatch is called at most once per accepted
\* swipe and for right swipes only.
C30_DeckRestarts ==
    sc.mounted =>
        /\ sc.swipes = 0 => sc.currentIndex = 0
        /\ sc.advances <= sc.swipes
        /\ sc.currentIndex = sc.advances
        /\ sc.onMatch <= sc.rights

C26_LikedExcluded ==
    (gu.pc = "done" /\ gu.lookup = "ok") =>
        \A k \in 1..Len(gu.result) :
            ~\E i \in 1..Len(WinesView) :
                /\ WinesView[i].id \in gu.liked
                /\ gu.result[k].id = IF WinesView[i].reference_id # ""
                                     THEN WinesView[i].reference_id
                                     ELSE WinesView[i].id

\* C27: a fetchWines call whose color or wine-type list holds a label of the
\* reference tables, whenever it is made relative to initialize() and also
\* after a failed initialize(), has its listing query restricted on that
\* dimension or returns no wine.
C27_NeverUnrestricted ==
    LET filters == fw.arg.filters
        InColors(label) ==
            \E j \in 1..Len(WineColorsTable) :
                \/ ToLowerCase(WineColorsTable[j].name) = ToLowerCase(Trim(label))
                \/ \E t \in 1..Len(WineColorsTranslationsTable) :
                      ToLowerCase(WineColorsTranslationsTable[t].translated_name)
                          = ToLowerCase(Trim(label))
        InTypes(label) ==
            \E j \in 1..Len(WineTypesTable) :
                \/ ToLowerCase(WineTypesTable[j].name) = ToLowerCase(Trim(label))
                \/ \E t \in 1..Len(WineTypesTranslationsTable) :
                      ToLowerCase(WineTypesTranslationsTable[t].translated_name)
                          = ToLowerCase(Trim(label))
        known ==
            {dim \in {"color", "wineType"} \cap DOMAIN filters :
                \E i \in 1..Len(filters[dim]) :
                    IF dim = "color" THEN InColors(filters[dim][i])
                    ELSE InTypes(filters[dim][i])}
    IN (fw.pc = "done" /\ fw.arg.given) =>
          \A dim \in known :
              ColumnOf(dim) \in DOMAIN fw.query \/ fw.result = <<>>

====
